---- MODULE Spec2Model ----
(***************************************************************************)
(* Category store reconciler and AI labeler of restaurant-inspections:     *)
(*   helpers/categories_helper.py  upsert_categories,                      *)
(*                                 join_categories_into_inspections        *)
(*   helpers/ai_labeler.py         label_categories_via_ai                 *)
(* Text cells are sequences of one-character strings, so that strip(),     *)
(* the "||" composite key and the sort order are computed, not assumed.    *)
(***************************************************************************)
EXTENDS Integers, Sequences, FiniteSets, TLC

VARIABLES
    aws,      \* the four AWS environment variables are all set
    s3,       \* the object at S3_KEY in the bucket (categories.csv)
    local,    \* the local file categories.csv
    table,    \* the working table inspections.xlsx
    log       \* the calls made so far: each with its inputs, outcomes and result

vars == <<aws, s3, local, table, log>>

(***************************************************************************)
(* Bounds of the model.                                                    *)
(***************************************************************************)
MaxStoreRows == 2   \* rows of the store a single call starts with
MaxTableRows == 2   \* rows of the working table of a single call
RunStoreRows == 1   \* rows of the store two reconcile runs start with
RunTableRows == 2   \* rows of the working table of two reconcile runs
MaxLines == 2       \* lines of one LLM response
MaxLimit == 2       \* largest limit a labeler call is given

(***************************************************************************)
(* Text.                                                                   *)
(***************************************************************************)
NaN == <<"NaN">>

Empty == <<>>

IsSpace(c) == c \in {" ", "\n"}

RECURSIVE lstrip(_)
lstrip(s) == IF s # <<>> /\ IsSpace(Head(s)) THEN lstrip(Tail(s)) ELSE s

RECURSIVE rstrip(_)
rstrip(s) ==
    IF s # <<>> /\ IsSpace(s[Len(s)]) THEN rstrip(SubSeq(s, 1, Len(s) - 1)) ELSE s

strip(s) == rstrip(lstrip(s))

fillna(v) == IF v = NaN THEN Empty ELSE v

\* col.fillna("").astype(str).str.strip()
fillna_strip(v) == strip(fillna(v))

\* The printable ASCII characters of code points 32 to 95 and 97 to 126.
ASCII_32 ==
    << " ", "!", "\"", "#", "$", "%", "&", "'",
       "(", ")", "*", "+", ",", "-", ".", "/",
       "0", "1", "2", "3", "4", "5", "6", "7",
       "8", "9", ":", ";", "<", "=", ">", "?",
       "@", "A", "B", "C", "D", "E", "F", "G",
       "H", "I", "J", "K", "L", "M", "N", "O",
       "P", "Q", "R", "S", "T", "U", "V", "W",
       "X", "Y", "Z", "[", "\\", "]", "^", "_" >>

ASCII_97 ==
    << "a", "b", "c", "d", "e", "f", "g", "h",
       "i", "j", "k", "l", "m", "n", "o", "p",
       "q", "r", "s", "t", "u", "v", "w", "x",
       "y", "z", "{", "|", "}", "~" >>

\* ord(c); the character between the two ranges is the backtick, 96
ord(c) ==
    IF c = "\n" THEN 10
    ELSE IF \E i \in DOMAIN ASCII_32 : ASCII_32[i] = c
         THEN 31 + CHOOSE i \in DOMAIN ASCII_32 : ASCII_32[i] = c
    ELSE IF \E i \in DOMAIN ASCII_97 : ASCII_97[i] = c
         THEN 96 + CHOOSE i \in DOMAIN ASCII_97 : ASCII_97[i] = c
    ELSE 96

\* Python's str comparison: -1, 0, 1.
RECURSIVE str_cmp(_, _)
str_cmp(a, b) ==
    IF a = <<>> /\ b = <<>> THEN 0
    ELSE IF a = <<>> THEN -1
    ELSE IF b = <<>> THEN 1
    ELSE IF ord(Head(a)) < ord(Head(b)) THEN -1
    ELSE IF ord(Head(a)) > ord(Head(b)) THEN 1
    ELSE str_cmp(Tail(a), Tail(b))

KEY_SEP == <<"|", "|">>

\* f + "||" + a + "||" + c on the stripped fields.
composite_key(r) ==
    fillna_strip(r.facility) \o KEY_SEP \o fillna_strip(r.address)
        \o KEY_SEP \o fillna_strip(r.city)

(***************************************************************************)
(* Files and frames.  A file holds written cells; a frame holds the cells  *)
(* as pandas reads them (an empty or NA cell is NaN).                      *)
(***************************************************************************)
KeyCols == {"facility", "address", "city"}

BaseCols == KeyCols \cup {"category"}

LabelCols == {"category", "cuisine", "ai_category", "ai_confidence", "ai_rationale"}

AllCols == KeyCols \cup LabelCols

NoFile == [exists |-> FALSE, columns |-> {}, rows |-> <<>>]

File(cols, rows) == [exists |-> TRUE, columns |-> cols, rows |-> rows]

NA_VALUES == {<<>>, <<"N", "A">>}

read_cell(v) == IF v \in NA_VALUES THEN NaN ELSE v

write_cell(v) == IF v = NaN THEN Empty ELSE v

\* pd.read_csv(..., dtype=str) / pd.read_excel(..., dtype=str)
read_csv(f) ==
    [columns |-> f.columns,
     rows |-> [i \in DOMAIN f.rows |->
                 [c \in DOMAIN f.rows[i] |-> read_cell(f.rows[i][c])]]]

\* df.to_csv(path, index=False) / df.to_excel(path, index=False)
to_csv(df) ==
    File(df.columns,
         [i \in DOMAIN df.rows |->
            [c \in DOMAIN df.rows[i] |-> write_cell(df.rows[i][c])]])

\* df[cols]: the frame restricted to the columns cols
project(df, cols) ==
    [columns |-> cols,
     rows |-> [i \in DOMAIN df.rows |-> [c \in cols |-> df.rows[i][c]]]]

\* for col in cols: add the column as "" when missing, then fillna/strip it
normalize_cols(df, cols) ==
    [columns |-> df.columns \cup cols,
     rows |-> [i \in DOMAIN df.rows |->
                 [c \in df.columns \cup cols |->
                    IF c \in cols
                    THEN IF c \in df.columns THEN fillna_strip(df.rows[i][c])
                         ELSE Empty
                    ELSE df.rows[i][c]]]]

Triple(r) == [c \in KeyCols |-> r[c]]

RECURSIVE select_seq(_, _)
\* df.loc[mask]: rows[i] for the i in the set keep, in order
select_seq(rows, keep) ==
    IF rows = <<>> THEN <<>>
    ELSE select_seq(SubSeq(rows, 1, Len(rows) - 1), keep)
            \o (IF Len(rows) \in keep THEN <<rows[Len(rows)]>> ELSE <<>>)

\* DataFrame.drop_duplicates(subset=cols, keep="first")
drop_duplicates(rows, cols) ==
    LET sub(r) == [c \in cols |-> r[c]]
        first == { i \in DOMAIN rows : \A j \in 1..(i - 1) : sub(rows[j]) # sub(rows[i]) }
    IN select_seq(rows, first)

\* row a sorts before or with row b on (facility, address, city)
key_le(a, b) ==
    LET f == str_cmp(a.facility, b.facility)
        d == str_cmp(a.address, b.address)
        c == str_cmp(a.city, b.city)
    IN IF f # 0 THEN f < 0 ELSE IF d # 0 THEN d < 0 ELSE c <= 0

RECURSIVE insert_sorted(_, _)
\* r placed after every row that sorts before or with it (stable)
insert_sorted(sorted, r) ==
    IF sorted = <<>> THEN <<r>>
    ELSE IF key_le(Head(sorted), r)
         THEN <<Head(sorted)>> \o insert_sorted(Tail(sorted), r)
         ELSE <<r>> \o sorted

RECURSIVE sort_values(_)
\* DataFrame.sort_values(["facility", "address", "city"]): a stable lexsort
sort_values(rows) ==
    IF rows = <<>> THEN <<>>
    ELSE insert_sorted(sort_values(SubSeq(rows, 1, Len(rows) - 1)), rows[Len(rows)])

(***************************************************************************)
(* The values behaviours start from.                                       *)
(***************************************************************************)
Pizza == <<"P", "i", "z", "z", "a">>

Cafe == <<"C", "a", "f", "e">>

Other == <<"O", "t", "h", "e", "r">>

\* Two triples whose "||" keys are the same string, and a third that differs.
TripleA == [facility |-> <<"A">>, address |-> <<"B", "|", "|", "C">>, city |-> <<"D">>]

TripleAB == [facility |-> <<"A", "|", "|", "B">>, address |-> <<"C">>, city |-> <<"D">>]

TripleB == [facility |-> <<"B">>, address |-> <<"C">>, city |-> <<"D">>]

\* TripleB as a working-table row whose facility cell has trailing whitespace
TripleBPadded == [facility |-> <<"B", " ">>, address |-> <<"C">>, city |-> <<"D">>]

TableTriples == {TripleA, TripleAB, TripleBPadded}

StoreRow(t, l) == [c \in BaseCols |-> IF c = "category" THEN l ELSE t[c]]

\* Store rows a behaviour may start with: labelled and unlabelled entries, one
\* triple under three different labels.
StoreRows ==
    { StoreRow(TripleA, Empty), StoreRow(TripleA, Pizza), StoreRow(TripleA, Cafe),
      StoreRow(TripleAB, Empty), StoreRow(TripleB, Empty), StoreRow(TripleB, Pizza) }

SeqsUpTo(S, n) == UNION { [1..k -> S] : k \in 0..n }

InitStores(n) ==
    {NoFile} \cup { File(BaseCols, rows) : rows \in SeqsUpTo(StoreRows, n) }

\* Stores a labeler call may start with: a triple with an unlabelled and a
\* labelled row, and a second unlabelled triple.
LabelStoreRows ==
    { StoreRow(TripleA, Empty), StoreRow(TripleA, Pizza), StoreRow(TripleB, Empty) }

LabelStores(n) ==
    {NoFile} \cup { File(BaseCols, rows) : rows \in SeqsUpTo(LabelStoreRows, n) }

InitTables(n) == { File(KeyCols, rows) : rows \in SeqsUpTo(TableTriples, n) }

\* The record of one call: the files before it, what its S3 and LLM calls did,
\* what it loaded and selected, and what it returned.
NoCall ==
    [op |-> "none", ret |-> "", rd |-> "none", wr |-> "none",
     s3 |-> NoFile, local |-> NoFile, table |-> NoFile,
     src |-> "none", loaded |-> <<>>, llm |-> "none", limit |-> 0,
     pending |-> <<>>, items |-> <<>>, applied |-> 0,
     key |-> TRUE, text |-> <<>>, arg |-> <<>>, done |-> TRUE,
     codes |-> NoFile, alone |-> TRUE, saved |-> <<>>, end |-> 0, body |-> NoFile]

\* A deployment before its first call: with AWS configured the store is the S3
\* object and there is no local copy yet; without, the store is the local file.
InitWith(stores, tables) ==
    /\ aws \in BOOLEAN
    /\ \E store \in stores :
         /\ s3 = IF aws THEN store ELSE NoFile
         /\ local = IF aws THEN NoFile ELSE store
    /\ table \in tables
    /\ log = <<>>

calls == Len(log)

(***************************************************************************)
(* S3 calls.  A call either answers or raises a transport error.           *)
(***************************************************************************)
Outcomes == {"ok", "error"}

\* s3_client.get_object(Bucket, Key): the object, "NoSuchKey" or "error"
get_object(rd) ==
    IF rd = "error" THEN "error" ELSE IF s3.exists THEN "object" ELSE "NoSuchKey"

\* s3_client.put_object(Bucket, Key, Body): the object after the call
put_object(wr, body) == IF wr = "ok" THEN body ELSE s3

(***************************************************************************)
(* upsert_categories                                                       *)
(***************************************************************************)
required_present(f) == f.exists /\ KeyCols \subseteq f.columns

\* input_error leaving an empty categories.csv behind
input_error_wipe(call) ==
    /\ log' = Append(log, call)
    /\ local' = File(BaseCols, <<>>)
    /\ s3' = s3
    /\ table' = table

\* the early return on a table that cannot be read or lacks a key column
input_error(call) ==
    /\ log' = Append(log, call)
    /\ local' = local
    /\ s3' = s3
    /\ table' = table

\* core.drop_duplicates() with category = ""
uniques_of(df) ==
    LET core == [i \in DOMAIN df.rows |->
                    [c \in KeyCols |-> fillna_strip(df.rows[i][c])]]
        uniq == drop_duplicates(core, KeyCols)
    IN [columns |-> BaseCols,
        rows |-> [i \in DOMAIN uniq |->
                    [c \in BaseCols |-> IF c = "category" THEN Empty ELSE uniq[i][c]]]]

\* the store as upsert loads it: an empty frame unless the object was read
load_existing(rd) ==
    IF get_object(rd) = "object"
    THEN normalize_cols(read_csv(s3), BaseCols)
    ELSE [columns |-> BaseCols, rows |-> <<>>]

\* uniques.loc[~uniques["_key"].isin(existing["_key"])]
new_rows(existing, uniques) ==
    LET keys == { composite_key(existing.rows[i]) : i \in DOMAIN existing.rows }
        absent == { i \in DOMAIN uniques.rows : composite_key(uniques.rows[i]) \notin keys }
    IN select_seq(uniques.rows, absent)

\* merge_categories as a plain concat of the store and the batch, sorted
merge_append(existing, uniques) ==
    [columns |-> BaseCols,
     rows |-> sort_values(project(existing, BaseCols).rows \o uniques.rows)]

\* Merge, then Finalize: four columns, duplicate rows dropped, sorted by key
merge_categories(existing, uniques) ==
    LET combined == IF existing.rows = <<>>
                    THEN uniques.rows
                    ELSE project(existing, BaseCols).rows \o new_rows(existing, uniques)
    IN [columns |-> BaseCols,
        rows |-> sort_values(drop_duplicates(combined, BaseCols))]

upsert_categories ==
    /\ IF ~required_present(table)
       THEN input_error([NoCall EXCEPT !.op = "upsert", !.ret = "",
                            !.s3 = s3, !.local = local, !.table = table])
       ELSE
       \E rd \in (IF aws THEN Outcomes ELSE {"ok"}),
          wr \in (IF aws THEN Outcomes ELSE {"ok"}) :
         LET df == read_csv(table)
             uniques == uniques_of(df)
             existing == load_existing(rd)
             combined == merge_categories(existing, uniques)
         IN IF ~aws
            THEN /\ local' = to_csv(uniques)
                 /\ s3' = s3
                 /\ log' = Append(log,
                                [NoCall EXCEPT !.op = "upsert", !.ret = "categories.csv",
                                    !.s3 = s3, !.local = local, !.table = table])
            ELSE /\ local' = to_csv(combined)
                 /\ s3' = put_object(wr, to_csv(combined))
                 /\ log' = Append(log,
                                [NoCall EXCEPT !.op = "upsert", !.ret = "categories.csv",
                                    !.rd = get_object(rd), !.wr = wr,
                                    !.s3 = s3, !.local = local, !.table = table,
                                    !.src = IF get_object(rd) = "object" THEN "s3"
                                            ELSE "none",
                                    !.loaded = existing.rows])
    /\ UNCHANGED <<aws, table>>

(***************************************************************************)
(* join_categories_into_inspections                                        *)
(***************************************************************************)
\* which copy of the store a reader gets: S3 first, then the local file
store_source(rd) ==
    IF aws /\ get_object(rd) = "object" THEN "s3"
    ELSE IF local.exists THEN "local"
    ELSE "none"

store_frame(src) == IF src = "s3" THEN read_csv(s3) ELSE read_csv(local)

\* Normalize and de-dupe categories: sorted by key, first row of a triple kept
join_categories(categories) ==
    drop_duplicates(
        sort_values(project(normalize_cols(categories, BaseCols), BaseCols).rows),
        KeyCols)

\* cat_map_get with the "||" key string as the dict key instead of the tuple
cat_map_get_by_key(cats, k) ==
    LET hits == { i \in DOMAIN cats : composite_key(cats[i]) = composite_key(k) }
    IN IF hits = {} THEN Empty
       ELSE cats[CHOOSE i \in hits : \A j \in hits : j <= i].category

\* cat_map.get(k, ""): dict(zip(keys, values)) keeps the last value of a key
cat_map_get(cats, k) ==
    LET hits == { i \in DOMAIN cats : Triple(cats[i]) = k }
    IN IF hits = {} THEN Empty
       ELSE cats[CHOOSE i \in hits : \A j \in hits : j <= i].category

\* df["category"] = values, the column added when the frame has none
with_category(df, values) ==
    [columns |-> df.columns \cup {"category"},
     rows |-> [i \in DOMAIN df.rows |->
                 [c \in df.columns \cup {"category"} |->
                    IF c = "category" THEN values[i] ELSE df.rows[i][c]]]]

join_categories_into_inspections ==
    /\ IF ~required_present(table)
       THEN input_error([NoCall EXCEPT !.op = "join", !.ret = "False",
                            !.s3 = s3, !.local = local, !.table = table])
       ELSE
       \E rd \in (IF aws THEN Outcomes ELSE {"ok"}) :
         LET df == normalize_cols(read_csv(table), KeyCols)
             src == store_source(rd)
             cats == join_categories(store_frame(src))
             looked_up == [i \in DOMAIN df.rows |-> cat_map_get(cats, Triple(df.rows[i]))]
             kept == [i \in DOMAIN df.rows |->
                        IF "category" \in df.columns THEN df.rows[i].category
                        ELSE Empty]
         IN /\ table' = IF src = "none"
                        THEN to_csv(with_category(df, kept))
                        ELSE to_csv(with_category(df, looked_up))
            /\ log' = Append(log,
                           [NoCall EXCEPT !.op = "join", !.ret = "True",
                               !.rd = IF aws THEN get_object(rd) ELSE "none",
                               !.s3 = s3, !.local = local, !.table = table,
                               !.src = src,
                               !.loaded = IF src = "none" THEN <<>>
                                          ELSE store_frame(src).rows])
    /\ UNCHANGED <<aws, s3, local>>

(***************************************************************************)
(* label_categories_via_ai                                                 *)
(***************************************************************************)
CATEGORIES ==
    { <<"P", "i", "z", "z", "a">>,
      <<"C", "a", "f", "e">>,
      <<"B", "a", "k", "e", "r", "y">>,
      <<"D", "e", "s", "s", "e", "r", "t">>,
      <<"P", "u", "b">>,
      <<"D", "e", "l", "i">>,
      <<"F", "a", "s", "t", " ", "F", "o", "o", "d">>,
      <<"R", "e", "s", "t", "a", "u", "r", "a", "n", "t">>,
      <<"M", "o", "b", "i", "l", "e">>,
      <<"V", "e", "n", "u", "e", " ", "D", "i", "n", "i", "n", "g">>,
      <<"O", "t", "h", "e", "r">> }

CUISINE_CATEGORIES ==
    { <<"M", "e", "x", "i", "c", "a", "n">>,
      <<"C", "h", "i", "n", "e", "s", "e">>,
      <<"J", "a", "p", "a", "n", "e", "s", "e">>,
      <<"T", "h", "a", "i">>,
      <<"I", "n", "d", "i", "a", "n">>,
      <<"M", "e", "d", "i", "t", "e", "r", "r", "a", "n", "e", "a", "n">>,
      <<"G", "r", "e", "e", "k">>,
      <<"M", "i", "d", "d", "l", "e", " ", "E", "a", "s", "t", "e", "r", "n">>,
      <<"K", "o", "r", "e", "a", "n">>,
      <<"V", "i", "e", "t", "n", "a", "m", "e", "s", "e">>,
      <<"I", "t", "a", "l", "i", "a", "n">>,
      <<"B", "B", "Q">>,
      <<"S", "e", "a", "f", "o", "o", "d">>,
      <<"A", "m", "e", "r", "i", "c", "a", "n">>,
      <<"C", "a", "r", "i", "b", "b", "e", "a", "n">>,
      <<"L", "a", "t", "i", "n", " ", "A", "m", "e", "r", "i", "c", "a", "n">>,
      <<"O", "t", "h", "e", "r">> }

\* a normalizer that lets every predicted value through
normalize_none(cat) == cat

normalize_strict(cat) == IF cat \in CATEGORIES THEN cat ELSE Other

normalize_cuisine(cat) == IF cat \in CUISINE_CATEGORIES THEN cat ELSE Other

\* One line of the model's reply, after s.replace("```json", "```")
\* .replace("```", "") and line.strip(), by what _parse_jsonl asks of it:
\*   blank   the line is empty
\*   open    line.startswith("{")
\*   braces  "{" in line and "}" in line
\*   whole   <<json.loads(line.rstrip(","))>>, or <<>> when it raises
\*   inner   <<json.loads(line[line.find("{") : line.rfind("}") + 1])>>, or <<>>
Line(kind, blank, open, braces, whole, inner) ==
    [kind |-> kind, blank |-> blank, open |-> open, braces |-> braces,
     whole |-> whole, inner |-> inner]

\* stray prose: Here are the labels
Prose == Line("prose", FALSE, FALSE, FALSE, <<>>, <<>>)

\* a code-fence marker: ```json or ```
Fence == Line("fence", TRUE, FALSE, FALSE, <<>>, <<>>)

\* text in braces that is no JSON: {see below}
Braces == Line("braces", FALSE, TRUE, TRUE, <<>>, <<>>)

\* a JSON object on a line of its own
JsonLine(obj) == Line("json", FALSE, TRUE, TRUE, <<obj>>, <<obj>>)

\* a JSON object followed by a comma, as in a pretty-printed list
CommaLine(obj) == Line("comma", FALSE, TRUE, TRUE, <<obj>>, <<>>)

\* a JSON object after some words: 0: {...}
WrappedLine(obj) == Line("wrapped", FALSE, FALSE, TRUE, <<>>, <<obj>>)

\* a reply object with in-vocabulary values and a numeric confidence
GoodObj(id) ==
    [id |-> id, strict_category |-> Cafe, cuisine |-> <<"T", "h", "a", "i">>,
     ai_category |-> <<"b", "o", "b", "a">>, confidence |-> <<"0", ".", "9">>,
     rationale |-> <<"d", "b", "a">>]

\* a reply object with an unknown category, no cuisine, a placeholder label
\* and a confidence that is no number
OddObj(id) ==
    [id |-> id, strict_category |-> <<"T", "a", "c", "o">>, cuisine |-> Empty,
     ai_category |-> Other, confidence |-> <<"h", "i">>, rationale |-> Empty]

ReplyLines ==
    {Prose, Fence, Braces} \cup { JsonLine(GoodObj(id)) : id \in 0..(MaxLimit - 1) }
        \cup {JsonLine(OddObj(0)), CommaLine(OddObj(0)), WrappedLine(GoodObj(0))}

Replies == SeqsUpTo(ReplyLines, MaxLines)

\* Replies to the labeler of a run: a prediction for the first candidate, for
\* the first two, an out-of-vocabulary prediction, and prose.
RunReplies ==
    { <<JsonLine(GoodObj(0))>>, <<JsonLine(GoodObj(0)), JsonLine(GoodObj(1))>>,
      <<JsonLine(OddObj(0))>>, <<Prose>> }

\* What the LLM may answer: any reply to a lone call, one of RunReplies to a
\* call that follows other stages.
reply_texts == IF log = <<>> THEN Replies ELSE RunReplies

\* the objects _parse_jsonl takes from one line: one, or none
parse_line(line) ==
    IF line.blank THEN <<>>
    ELSE IF line.open /\ line.braces /\ line.whole # <<>> THEN line.whole
    ELSE IF line.braces THEN line.inner
    ELSE <<>>

RECURSIVE parse_lines(_)
parse_lines(text) ==
    IF text = <<>> THEN <<>> ELSE parse_line(Head(text)) \o parse_lines(Tail(text))

\* parse_jsonl as json.loads of every line: one line that fails, fails them all
parse_jsonl_strict(text) ==
    IF \E i \in DOMAIN text : parse_line(text[i]) = <<>> THEN <<>>
    ELSE parse_lines(text)

\* _parse_jsonl: the objects of the lines that parse, in order
parse_jsonl(text) == parse_lines(text)

is_float(v) == v = <<"0", ".", "9">>

\* the prediction built from one parsed object
prediction_of(r) ==
    [category |-> normalize_strict(strip(r.strict_category)),
     cuisine |-> normalize_cuisine(strip(r.cuisine)),
     ai_category |-> strip(r.ai_category),
     ai_confidence |-> IF is_float(r.confidence) THEN r.confidence ELSE Empty,
     ai_rationale |-> strip(r.rationale)]

\* predictions.get(rid): the prediction of the last parsed object with that id
predictions_get(rows, rid) ==
    LET hits == { i \in DOMAIN rows : rows[i].id = rid }
    IN IF hits = {} THEN [found |-> FALSE]
       ELSE [found |-> TRUE,
             pred |-> prediction_of(rows[CHOOSE i \in hits : \A j \in hits : j <= i])]

\* the store as the labeler loads it, with all eight columns normalized
load_categories_df(src) ==
    normalize_cols(
        IF src = "none" THEN [columns |-> AllCols, rows |-> <<>>] ELSE store_frame(src),
        AllCols)

\* cats.loc[mask_unlabeled, key columns].drop_duplicates().head(limit)
pending_of(cats, limit) ==
    LET unlabeled == { i \in DOMAIN cats.rows :
                         fillna_strip(cats.rows[i].category) = Empty }
        rows == select_seq(project(cats, KeyCols).rows, unlabeled)
        uniq == drop_duplicates(rows, KeyCols)
    IN SubSeq(uniq, 1, IF Len(uniq) < limit THEN Len(uniq) ELSE limit)

\* items: the pending triples with ids 0, 1, ...
items_of(pending) ==
    [i \in DOMAIN pending |->
        [id |-> i - 1, facility |-> pending[i].facility,
         address |-> pending[i].address, city |-> pending[i].city]]

\* apply_mask without the test that the category is still ""
apply_mask_any(row, it) ==
    /\ row.facility = it.facility
    /\ row.address = it.address
    /\ row.city = it.city

\* the mask m of one item: same triple and a category that is still ""
apply_mask(row, it) ==
    /\ row.facility = it.facility
    /\ row.address = it.address
    /\ row.city = it.city
    /\ fillna(row.category) = Empty

\* cats.loc[m, label columns] = pred
apply_one(rows, it, pred) ==
    [i \in DOMAIN rows |->
        IF apply_mask(rows[i], it)
        THEN [c \in AllCols |-> IF c \in LabelCols THEN pred[c] ELSE rows[i][c]]
        ELSE rows[i]]

RECURSIVE apply_predictions(_, _, _, _)
\* the loop over items, in order: [rows, applied]
apply_predictions(rows, items, parsed, applied) ==
    IF items = <<>> THEN [rows |-> rows, applied |-> applied]
    ELSE LET it == Head(items)
             got == predictions_get(parsed, it.id)
             n == Cardinality({ i \in DOMAIN rows : apply_mask(rows[i], it) })
         IN IF got.found /\ n > 0
            THEN apply_predictions(apply_one(rows, it, got.pred), Tail(items),
                                   parsed, applied + n)
            ELSE apply_predictions(rows, Tail(items), parsed, applied)

\* _openai_client() ignoring a missing SDK or OPENAI_API_KEY
openai_client_unchecked(key) == "client"

\* _openai_client(): raises when the SDK or OPENAI_API_KEY is missing
openai_client(key) == IF key THEN "client" ELSE "error"

\* _save_categories_df: the local file always, the S3 object when configured
save_categories_df(wr, body) ==
    /\ local' = body
    /\ s3' = IF aws THEN put_object(wr, body) ELSE s3

\* saving inside the loop: the store is written after every row applied
saves_per_row(applied, body) == [k \in 1..applied |-> body]

\* the stores a call saves, in order: "if applied: _save_categories_df(cats)"
\* after the loop over the items
saves_of(applied, body) == IF applied > 0 THEN <<body>> ELSE <<>>

label_categories_via_ai ==
    /\ IF ~required_present(table)
       THEN input_error([NoCall EXCEPT !.op = "label", !.ret = 0,
                            !.s3 = s3, !.local = local, !.table = table])
       ELSE
       \E rd \in (IF aws THEN Outcomes ELSE {"ok"}), limit \in 1..MaxLimit,
          key \in BOOLEAN :
         LET src == store_source(rd)
             cats == load_categories_df(src)
             pending == pending_of(cats, limit)
             items == items_of(pending)
             call == [NoCall EXCEPT !.op = "label", !.ret = 0,
                         !.rd = IF aws THEN get_object(rd) ELSE "none",
                         !.s3 = s3, !.local = local, !.table = table,
                         !.src = src, !.loaded = cats.rows,
                         !.limit = limit, !.pending = pending, !.key = key]
         IN \/ /\ pending = <<>>
               /\ log' = Append(log, call)
               /\ UNCHANGED <<s3, local>>
            \/ /\ pending # <<>>
               /\ openai_client(key) = "error"
               /\ log' = Append(log, [call EXCEPT !.llm = "nokey"])
               /\ UNCHANGED <<s3, local>>
            \/ /\ pending # <<>>
               /\ openai_client(key) = "client"
               /\ log' = Append(log, [call EXCEPT !.llm = "apierror", !.items = items])
               /\ UNCHANGED <<s3, local>>
            \/ /\ pending # <<>>
               /\ openai_client(key) = "client"
               /\ \E text \in reply_texts :
                    LET parsed == parse_jsonl(text)
                        done == apply_predictions(cats.rows, items, parsed, 0)
                        body == to_csv([columns |-> AllCols, rows |-> done.rows])
                        replied == [call EXCEPT !.items = items, !.text = text,
                                       !.llm = IF parsed = <<>> THEN "noparse"
                                               ELSE "reply"]
                        saves == saves_of(done.applied, body)
                    IN IF saves = <<>>
                       THEN /\ log' = Append(log, replied)
                            /\ UNCHANGED <<s3, local>>
                       ELSE \E wr \in (IF aws THEN Outcomes ELSE {"ok"}) :
                              /\ save_categories_df(wr, saves[Len(saves)])
                              /\ log' = Append(log,
                                     [replied EXCEPT !.ret = done.applied,
                                         !.applied = done.applied,
                                         !.saved = saves,
                                         !.wr = IF aws THEN wr ELSE "none"])
    /\ UNCHANGED <<aws, table>>

(***************************************************************************)
(* Specifications.                                                         *)
(***************************************************************************)
\* One upsert_categories call.
InitCall == InitWith(InitStores(MaxStoreRows), InitTables(MaxTableRows))

NextUpsert == calls = 0 /\ upsert_categories

SpecUpsert == InitCall /\ [][NextUpsert]_vars

\* A join, directly or after an upsert.
NextJoin ==
    \/ calls = 0 /\ upsert_categories
    \/ calls <= 1 /\ join_categories_into_inspections

SpecJoin == InitCall /\ [][NextJoin]_vars

\* One label_categories_via_ai call; the labeler reads the working table only
\* for the evidence of its prompt.
InitLabel == InitWith(LabelStores(MaxStoreRows), {File(KeyCols, <<TripleA>>)})

NextLabel == calls = 0 /\ label_categories_via_ai

SpecLabel == InitLabel /\ [][NextLabel]_vars

\* One call of any of the three on a working table that cannot be read (no
\* file) or that lacks one of the key columns.
BadTables ==
    {NoFile} \cup
    UNION { { File(KeyCols \ {c}, rows) :
                rows \in SeqsUpTo({ [d \in KeyCols \ {c} |-> TripleA[d]] }, 1) }
            : c \in KeyCols }

InitShape == InitWith(InitStores(RunStoreRows), BadTables)

NextShape ==
    \/ calls = 0 /\ upsert_categories
    \/ calls = 0 /\ join_categories_into_inspections
    \/ calls = 0 /\ label_categories_via_ai

SpecShape == InitShape /\ [][NextShape]_vars

\* Reconcile (upsert, then join) run twice on the same working table.
Init == InitWith(InitStores(RunStoreRows), InitTables(RunTableRows))

Next ==
    \/ calls \in {0, 2} /\ upsert_categories
    \/ calls \in {1, 3} /\ join_categories_into_inspections

Spec == Init /\ [][Next]_vars

(***************************************************************************)
(* helpers/violations_helper.py: clean_violation_code,                     *)
(* translate_priority_to_risk                                              *)
(***************************************************************************)
MaxCodeLen == 3       \* characters of a violation code drawn from CodeChars
MaxPriorityLen == 4   \* characters of a priority level drawn from PriorityChars

None == <<"None">>

NA == <<"N", "A">>

LowerLetters ==
    { "a", "b", "c", "d", "e", "f", "g", "h", "i", "j", "k", "l", "m", "n", "o", "p", "q", "r", "s", "t", "u", "v", "w", "x", "y", "z" }

UpperLetters ==
    { "A", "B", "C", "D", "E", "F", "G", "H", "I", "J", "K", "L", "M", "N", "O", "P", "Q", "R", "S", "T", "U", "V", "W", "X", "Y", "Z" }

\* [a-zA-Z]
Letters == LowerLetters \cup UpperLetters

\* the call a specification of one function starts with: its argument drawn
\* from args, its result not yet computed
InitArg(op, args) ==
    /\ aws = FALSE
    /\ s3 = NoFile
    /\ local = NoFile
    /\ table = NoFile
    /\ \E x \in args : log = <<[NoCall EXCEPT !.op = op, !.arg = x, !.done = FALSE]>>

\* the call returns ret
returns(ret) ==
    /\ log' = <<[log[1] EXCEPT !.ret = ret, !.done = TRUE]>>
    /\ UNCHANGED <<aws, s3, local, table>>

called(op) == calls = 1 /\ log[1].op = op /\ ~log[1].done

RECURSIVE sub_parenthesized(_)
\* re.sub(r'\([^)]*\)', '', code): "(" up to the next ")" is removed
sub_parenthesized(s) ==
    IF s = <<>> THEN <<>>
    ELSE IF Head(s) = "(" /\ \E j \in 2..Len(s) : s[j] = ")"
         THEN LET j == CHOOSE j \in 2..Len(s) :
                          s[j] = ")" /\ \A k \in 2..(j - 1) : s[k] # ")"
              IN sub_parenthesized(SubSeq(s, j + 1, Len(s)))
         ELSE <<Head(s)>> \o sub_parenthesized(Tail(s))

\* the number of whitespace characters s starts with
leading_spaces(s) == Len(s) - Len(lstrip(s))

RECURSIVE sub_hyphens(_)
\* re.sub(r'\s*-\s*', ' - ', cleaned)
sub_hyphens(s) ==
    IF s = <<>> THEN <<>>
    ELSE LET n == leading_spaces(s)
         IN IF n < Len(s) /\ s[n + 1] = "-"
            THEN <<" ", "-", " ">> \o sub_hyphens(lstrip(SubSeq(s, n + 2, Len(s))))
            ELSE <<Head(s)>> \o sub_hyphens(Tail(s))

\* sub_letters removing nothing
sub_letters_none(s) == s

\* re.sub(r'[a-zA-Z]', '', cleaned)
sub_letters(s) == select_seq(s, { i \in DOMAIN s : s[i] \notin Letters })

RECURSIVE sub_spaces(_)
\* re.sub(r'\s+', ' ', cleaned)
sub_spaces(s) ==
    IF s = <<>> THEN <<>>
    ELSE IF IsSpace(Head(s)) THEN <<" ">> \o sub_spaces(lstrip(s))
    ELSE <<Head(s)>> \o sub_spaces(Tail(s))

RECURSIVE lstrip_chars(_, _)
\* str.lstrip(chars)
lstrip_chars(s, chars) ==
    IF s # <<>> /\ Head(s) \in chars THEN lstrip_chars(Tail(s), chars) ELSE s

RECURSIVE rstrip_chars(_, _)
\* str.rstrip(chars)
rstrip_chars(s, chars) ==
    IF s # <<>> /\ s[Len(s)] \in chars
    THEN rstrip_chars(SubSeq(s, 1, Len(s) - 1), chars)
    ELSE s

clean_violation_code(code) ==
    IF code \in {NaN, None} THEN Empty
    ELSE LET stripped == strip(code)
             no_parens == sub_parenthesized(stripped)
             hyphens == sub_hyphens(no_parens)
             no_letters == sub_letters(hyphens)
             spaces == sub_spaces(no_letters)
             right == rstrip_chars(spaces, {"-", " ", "."})
             left == lstrip_chars(right, {"-", " ", "."})
         IN strip(left)

RECURSIVE split(_, _)
\* str.split(sep) for a separator of one character
split(s, sep) ==
    IF \A i \in DOMAIN s : s[i] # sep THEN <<s>>
    ELSE LET i == CHOOSE i \in DOMAIN s : s[i] = sep /\ \A k \in 1..(i - 1) : s[k] # sep
         IN <<SubSeq(s, 1, i - 1)>> \o split(SubSeq(s, i + 1, Len(s)), sep)

RECURSIVE join(_, _)
\* sep.join(parts)
join(parts, sep) ==
    IF parts = <<>> THEN <<>>
    ELSE IF Len(parts) = 1 THEN parts[1]
    ELSE parts[1] \o sep \o join(Tail(parts), sep)

\* risk_map[part], or "NA" for a part that is no key of it
risk_map_get(part) ==
    CASE part = <<"P">> -> <<"h", "i", "g", "h", " ", "r", "i", "s", "k">>
      [] part = <<"P", "f">> -> <<"m", "o", "d", "e", "r", "a", "t", "e", " ", "r", "i", "s", "k">>
      [] part = <<"C">> -> <<"l", "o", "w", " ", "r", "i", "s", "k">>
      [] OTHER -> NA

\* risk_part looking the element up as it is, without p.strip()
risk_part_unstripped(p) == risk_map_get(p)

\* one element of the list: stripped, then looked up in risk_map
risk_part(p) == risk_map_get(strip(p))

translate_priority_to_risk(priority_level) ==
    IF priority_level \in {None, Empty, NA} THEN NA
    ELSE LET parts == split(priority_level, ",")
         IN join([i \in DOMAIN parts |-> risk_part(parts[i])], <<",", " ">>)

\* the code of the specification's scenario: 103.4(a)(1) - Equipment
EquipmentCode ==
    <<"1", "0", "3", ".", "4", "(", "a", ")", "(", "1", ")", " ", "-", " ", "E", "q", "u", "i", "p", "m", "e", "n", "t">>

CodeChars == {"1", "(", "a", ")", " ", "-", "."}

CodeArgs == SeqsUpTo(CodeChars, MaxCodeLen) \cup {EquipmentCode, NaN}

PriorityChars == {"P", "f", "C", ",", " "}

PriorityArgs == SeqsUpTo(PriorityChars, MaxPriorityLen) \cup {NA, None}

\* One clean_violation_code call.
InitCleanCode == InitArg("clean_violation_code", CodeArgs)

NextCleanCode ==
    called("clean_violation_code") /\ returns(clean_violation_code(log[1].arg))

SpecCleanCode == InitCleanCode /\ [][NextCleanCode]_vars

\* One translate_priority_to_risk call.
InitRisk == InitArg("translate_priority_to_risk", PriorityArgs)

NextRisk ==
    called("translate_priority_to_risk")
        /\ returns(translate_priority_to_risk(log[1].arg))

SpecRisk == InitRisk /\ [][NextRisk]_vars

(***************************************************************************)
(* helpers/violations_helper.py: join_violation_details                    *)
(***************************************************************************)
MaxViolationRows == 2   \* rows of the working table join_violation_details reads
MaxFoodRows == 1        \* rows of food-codes.csv

ViolationCols == {"violation_code", "violation_description"}

DetailCols == {"spotlight_pa", "priority_level", "risk_level", "requirement_description"}

FoodCols ==
    {"Requirement", "Spotlight PA Category", "Priority Level", "Requirement Description"}

PIPE_SEP == <<" ", "|", " ">>

\* str(x) of a cell of a frame read with dtype=str: a missing cell is "nan"
str_of(v) == IF v = NaN THEN <<"n", "a", "n">> ELSE v

FoodRow(req, cat, pri, desc) ==
    [c \in FoodCols |->
        CASE c = "Requirement" -> req
          [] c = "Spotlight PA Category" -> cat
          [] c = "Priority Level" -> pri
          [] c = "Requirement Description" -> desc]

\* Rows of food-codes.csv: code 1 twice, once with a padded Requirement cell
\* and a list of priorities, a row of code 1 with empty detail cells, and a
\* row without a Requirement.
FoodRows ==
    { FoodRow(<<"1">>, <<"S">>, <<"P">>, <<"R">>),
      FoodRow(<<"1", " ">>, <<"T">>, <<"P", "f", ",", " ", "C">>, <<"Q">>),
      FoodRow(<<"1">>, Empty, Empty, Empty),
      FoodRow(Empty, <<"S">>, <<"P">>, <<"R">>) }

\* What the bucket may hold under the food-codes key: nothing, a file without
\* its Priority Level column, or a file of rows.
FoodCodeFiles ==
    {NoFile, File(FoodCols \ {"Priority Level"}, <<>>)}
        \cup { File(FoodCols, rows) : rows \in SeqsUpTo(FoodRows, MaxFoodRows) }

ViolationRow(code, desc) ==
    [c \in ViolationCols |-> IF c = "violation_code" THEN code ELSE desc]

\* Records of the working table: no violation, a code that is not in
\* food-codes.csv, and two codes of which the first is; with no description,
\* one, or two.
ViolationRows ==
    { ViolationRow(code, desc) :
        code \in { Empty, <<"2">>, <<"1", "(", "a", ")", " ", "|", " ", "2">> },
        desc \in { Empty, <<"x">>, <<"x", " ", "|", " ", "y">> } }

ViolationTables == { File(ViolationCols, rows) : rows \in SeqsUpTo(ViolationRows, MaxViolationRows) }

\* the lookup dict: the rows with a non-empty stripped Requirement
lookup_rows(food_codes) ==
    select_seq(food_codes.rows,
               { i \in DOMAIN food_codes.rows :
                   fillna_strip(food_codes.rows[i]["Requirement"]) # Empty })

\* cleaned_code in lookup
lookup_has(rows, cleaned) ==
    \E i \in DOMAIN rows : fillna_strip(rows[i]["Requirement"]) = cleaned

\* lookup[cleaned_code]: the last row of that Requirement
lookup_get(rows, cleaned) ==
    LET hits == { i \in DOMAIN rows : fillna_strip(rows[i]["Requirement"]) = cleaned }
    IN rows[CHOOSE i \in hits : \A j \in hits : j <= i]

\* descriptions[i] after the padding loop
padded(descriptions, i) == IF i <= Len(descriptions) THEN descriptions[i] ELSE Empty

\* the miss branch: "NA" three times and the original description
resolve_miss(original_desc) ==
    [raises |-> FALSE, spotlight_pa |-> NA, priority_level |-> NA,
     risk_level |-> NA, requirement_description |-> original_desc]

\* the hit branch; a NaN detail cell makes .split or " | ".join raise
resolve_hit(details) ==
    [raises |-> \E c \in FoodCols \ {"Requirement"} : details[c] = NaN,
     spotlight_pa |-> details["Spotlight PA Category"],
     priority_level |-> details["Priority Level"],
     risk_level |-> IF details["Priority Level"] = NaN THEN NaN
                    ELSE translate_priority_to_risk(details["Priority Level"]),
     requirement_description |-> details["Requirement Description"]]

\* the four parts of one code of a record
resolve_code(lookup, code, original_desc) ==
    LET cleaned_code == clean_violation_code(code)
    IN IF lookup_has(lookup, cleaned_code)
       THEN resolve_hit(lookup_get(lookup, cleaned_code))
       ELSE resolve_miss(original_desc)

\* the four new cells of one record
resolve_row(lookup, row, cols) ==
    LET violation_codes == str_of(row["violation_code"])
        original_descriptions ==
            IF "violation_description" \in cols
            THEN str_of(row["violation_description"]) ELSE Empty
        raw_codes == split(violation_codes, "|")
        raw_descs == split(original_descriptions, "|")
        codes == [i \in DOMAIN raw_codes |-> strip(raw_codes[i])]
        descriptions == [i \in DOMAIN raw_descs |-> strip(raw_descs[i])]
        parts == [i \in DOMAIN codes |->
                    resolve_code(lookup, codes[i], padded(descriptions, i))]
    IN IF strip(violation_codes) = Empty
       THEN [raises |-> FALSE] @@ [c \in DetailCols |-> Empty]
       ELSE [raises |-> \E i \in DOMAIN parts : parts[i].raises] @@
            [c \in DetailCols |->
                IF \E i \in DOMAIN parts : parts[i].raises THEN Empty
                ELSE join([i \in DOMAIN parts |-> parts[i][c]], PIPE_SEP)]

\* what one record adds to missing_codes: its cleaned codes that are not
\* empty and not in the lookup
missing_codes(lookup, row) ==
    LET violation_codes == str_of(row["violation_code"])
        raw_codes == split(violation_codes, "|")
        cleaned == { clean_violation_code(strip(raw_codes[i])) : i \in DOMAIN raw_codes }
    IN IF strip(violation_codes) = Empty THEN {}
       ELSE { c \in cleaned : c # Empty /\ ~lookup_has(lookup, c) }

\* food-codes.csv of a run: none, or the row of code 1.
RunFoodCodes == {NoFile, File(FoodCols, <<FoodRow(<<"1">>, <<"S">>, <<"P">>, <<"R">>)>>)}

\* What a call may find under the food-codes key.  No stage writes the
\* object: a call that follows other stages finds what the Resolver calls
\* before it found, one of RunFoodCodes.
food_code_files ==
    IF calls = 0 THEN FoodCodeFiles
    ELSE LET found == { log[n].codes :
                          n \in { m \in DOMAIN log :
                                    /\ log[m].op = "violations"
                                    /\ log[m].rd \in {"object", "NoSuchKey"} } }
         IN IF found = {} THEN RunFoodCodes ELSE found

join_violation_details ==
    /\ \E rd \in (IF aws THEN Outcomes ELSE {"ok"}),
          food_codes \in (IF aws THEN food_code_files ELSE {NoFile}) :
         LET df == read_csv(table)
             call == [NoCall EXCEPT !.op = "violations", !.ret = "False",
                         !.table = table]
             fetch == IF rd = "error" THEN "error"
                      ELSE IF food_codes.exists THEN "object" ELSE "NoSuchKey"
             fetched == [call EXCEPT !.rd = fetch,
                            !.codes = IF fetch = "object" THEN food_codes
                                      ELSE NoFile]
             lookup == lookup_rows(read_csv(food_codes))
             cells == [i \in DOMAIN df.rows |-> resolve_row(lookup, df.rows[i], df.columns)]
             out == [columns |-> df.columns \cup DetailCols,
                     rows |-> [i \in DOMAIN df.rows |->
                                 [c \in df.columns \cup DetailCols |->
                                    IF c \in DetailCols THEN cells[i][c]
                                    ELSE df.rows[i][c]]]]
         IN IF ~table.exists
            THEN log' = Append(log, call) /\ table' = table
            ELSE IF "violation_code" \notin df.columns
            THEN log' = Append(log, [call EXCEPT !.ret = "True"]) /\ table' = table
            ELSE IF ~aws
            THEN log' = Append(log, call) /\ table' = table
            ELSE IF fetch # "object" \/ ~(FoodCols \subseteq food_codes.columns)
            THEN log' = Append(log, fetched) /\ table' = table
            ELSE IF \E i \in DOMAIN cells : cells[i].raises
            THEN log' = Append(log, fetched) /\ table' = table
            ELSE /\ log' = Append(log, [fetched EXCEPT !.ret = "True"])
                 /\ table' = to_csv(out)
    /\ UNCHANGED <<aws, s3, local>>

\* One join_violation_details call on a cleaned working table.
InitViolations ==
    /\ aws \in BOOLEAN
    /\ s3 = NoFile
    /\ local = NoFile
    /\ table \in ViolationTables \cup {NoFile, File({"violation_description"}, <<>>)}
    /\ log = <<>>

NextViolations == calls = 0 /\ join_violation_details

SpecViolations == InitViolations /\ [][NextViolations]_vars

(***************************************************************************)
(* helpers/cleaner.py: extract_city                                        *)
(***************************************************************************)
MaxAddressLen == 6   \* characters of an address drawn from AddressChars

\* s[from..] is \s*PA\s followed by anything
state_follows(s, from) ==
    LET rest == lstrip(SubSeq(s, from, Len(s)))
    IN Len(rest) >= 3 /\ rest[1] = "P" /\ rest[2] = "A" /\ IsSpace(rest[3])

\* the comma that ends the segment starting after the comma at i, or 0
next_comma(s, i) ==
    LET later == { j \in (i + 1)..Len(s) : s[j] = "," }
    IN IF later = {} THEN 0 ELSE CHOOSE j \in later : \A k \in later : j <= k

\* city_match without the comma in front of the segment: any text that ends
\* at a comma followed by PA
city_match_open(s, i) ==
    /\ next_comma(s, i) > i + 1
    /\ state_follows(s, next_comma(s, i) + 1)

\* ,\s*([^,]+)\s*,\s*PA\s matches s at index i
city_match(s, i) ==
    /\ s[i] = ","
    /\ next_comma(s, i) > i + 1
    /\ state_follows(s, next_comma(s, i) + 1)

\* re.search(...): group(1).strip() of the leftmost match, "" without one
extract_city(address) ==
    IF address = NaN THEN Empty
    ELSE LET found == { i \in DOMAIN address : city_match(address, i) }
         IN IF found = {} THEN Empty
            ELSE LET i == CHOOSE i \in found : \A k \in found : i <= k
                 IN strip(SubSeq(address, i + 1, next_comma(address, i) - 1))

\* 123 Main St., Erie, PA 16501
ErieAddress ==
    <<"1", "2", "3", " ", "M", "a", "i", "n", " ", "S", "t", ".", ",", " ", "E", "r", "i", "e", ",", " ", "P", "A", " ", "1", "6", "5", "0", "1">>

\* 123 Main St.
MainAddress == <<"1", "2", "3", " ", "M", "a", "i", "n", " ", "S", "t", ".">>

AddressChars == {",", " ", "P", "A", "e"}

AddressArgs == SeqsUpTo(AddressChars, MaxAddressLen) \cup {ErieAddress, MainAddress, NaN}

\* One extract_city call.
InitCity == InitArg("extract_city", AddressArgs)

NextCity == called("extract_city") /\ returns(extract_city(log[1].arg))

SpecCity == InitCity /\ [][NextCity]_vars

(***************************************************************************)
(* helpers/cleaner.py: the text rewrites of clean_data                     *)
(***************************************************************************)
LowerSeq ==
    <<"a", "b", "c", "d", "e", "f", "g", "h", "i", "j", "k", "l", "m", "n", "o", "p", "q", "r", "s", "t", "u", "v", "w", "x", "y", "z">>

UpperSeq ==
    <<"A", "B", "C", "D", "E", "F", "G", "H", "I", "J", "K", "L", "M", "N", "O", "P", "Q", "R", "S", "T", "U", "V", "W", "X", "Y", "Z">>

Digits == {"0", "1", "2", "3", "4", "5", "6", "7", "8", "9"}

\* \w
IsWord(c) == c \in Letters \cup Digits \cup {"_"}

to_upper(c) ==
    IF c \in LowerLetters THEN UpperSeq[CHOOSE i \in 1..26 : LowerSeq[i] = c] ELSE c

to_lower(c) ==
    IF c \in UpperLetters THEN LowerSeq[CHOOSE i \in 1..26 : UpperSeq[i] = c] ELSE c

\* str.lower()
lower(s) == [i \in DOMAIN s |-> to_lower(s[i])]

\* str.title(): a letter is upper case after a character that is no letter
title(s) ==
    [i \in DOMAIN s |->
        IF i > 1 /\ s[i - 1] \in Letters THEN to_lower(s[i]) ELSE to_upper(s[i])]

\* \b between s[i] and s[i + 1]; i = 0 and i = Len(s) are the ends of s
boundary(s, i) ==
    (i >= 1 /\ IsWord(s[i])) # (i < Len(s) /\ IsWord(s[i + 1]))

\* s has the text w at index i
has_at(s, i, w) == i + Len(w) - 1 <= Len(s) /\ SubSeq(s, i, i + Len(w) - 1) = w

ORDINALS == { <<"s", "t">>, <<"n", "d">>, <<"r", "d">>, <<"t", "h">> }

\* s[i] is a letter of ST, ND, RD or TH, in any case, after a digit and
\* before a word boundary
in_ordinal(s, i) ==
    \E k \in {i - 1, i} :
        /\ k > 1 /\ k + 1 <= Len(s)
        /\ s[k - 1] \in Digits
        /\ lower(SubSeq(s, k, k + 1)) \in ORDINALS
        /\ boundary(s, k + 1)

\* re.sub(r'(\d+)(ST|ND|RD|TH)\b', ..., flags=re.IGNORECASE) and
\* re.sub(r"(?<=\d)(ST|ND|RD|TH)\b", ...): the suffix in lower case
fix_ordinal_suffixes(s) ==
    [i \in DOMAIN s |-> IF in_ordinal(s, i) THEN to_lower(s[i]) ELSE s[i]]

RECURSIVE words_of(_)
\* str.split(): the words between runs of whitespace
words_of(s) ==
    LET t == lstrip(s)
        n == IF \E i \in DOMAIN t : IsSpace(t[i])
             THEN (CHOOSE i \in DOMAIN t :
                      IsSpace(t[i]) /\ \A k \in 1..(i - 1) : ~IsSpace(t[k])) - 1
             ELSE Len(t)
    IN IF t = <<>> THEN <<>>
       ELSE <<SubSeq(t, 1, n)>> \o words_of(SubSeq(t, n + 1, Len(t)))

\* helpers/dictionaries/title_case.py
TITLE_CASE == { <<"a", "n", "d">>, <<"o", "f">>, <<"t", "h", "e">> }

\* every word but the first in lower case when it is a small word
small_words(s) ==
    LET words == words_of(s)
    IN join([i \in DOMAIN words |->
                IF i = 1 \/ lower(words[i]) \notin TITLE_CASE THEN words[i]
                ELSE lower(words[i])],
            <<" ">>)

\* re.sub(r"[`...']", "'", x), on the ASCII characters of the class
apostrophes(s) == [i \in DOMAIN s |-> IF s[i] \in {"`", "'"} THEN "'" ELSE s[i]]

RECURSIVE possessive_from(_, _, _)
\* re.sub(r"(\b\w+)'S\b", ...) from index i, the last match ending before from
possessive_from(s, i, from) ==
    IF i > Len(s) THEN <<>>
    ELSE IF /\ s[i] = "'" /\ has_at(s, i, <<"'", "S">>)
            /\ i - 1 >= from /\ IsWord(s[i - 1])
            /\ boundary(s, i + 1)
         THEN <<"'", "s">> \o possessive_from(s, i + 2, i + 2)
         ELSE <<s[i]>> \o possessive_from(s, i + 1, from)

possessive(s) == possessive_from(s, 1, 1)

RECURSIVE sub_word_from(_, _, _, _)
\* re.sub(rf"\b{w}\b", repl, s) from index i
sub_word_from(s, i, w, repl) ==
    IF i > Len(s) THEN <<>>
    ELSE IF has_at(s, i, w) /\ boundary(s, i - 1) /\ boundary(s, i + Len(w) - 1)
         THEN repl \o sub_word_from(s, i + Len(w), w, repl)
         ELSE <<s[i]>> \o sub_word_from(s, i + 1, w, repl)

sub_word(s, w, repl) == sub_word_from(s, 1, w, repl)

COMPASS ==
    { <<"N">>, <<"S">>, <<"E">>, <<"W">>,
      <<"N", "E">>, <<"N", "W">>, <<"S", "E">>, <<"S", "W">> }

RECURSIVE compass_from(_, _)
\* re.sub(r"\b(N|S|E|W|NE|NW|SE|SW)\b", r"\1.", x) from index i
compass_from(s, i) ==
    IF i > Len(s) THEN <<>>
    ELSE LET hits == { w \in COMPASS :
                         /\ has_at(s, i, w)
                         /\ boundary(s, i - 1)
                         /\ boundary(s, i + Len(w) - 1) }
         IN IF hits # {}
            THEN LET w == CHOOSE w \in hits : TRUE
                 IN w \o <<".">> \o compass_from(s, i + Len(w))
            ELSE <<s[i]>> \o compass_from(s, i + 1)

compass(s) == compass_from(s, 1)

RECURSIVE pa_from(_, _)
\* re.sub(r'(\s)Pa(\s)', r', PA\2', x) from index i
pa_from(s, i) ==
    IF i > Len(s) THEN <<>>
    ELSE IF /\ i + 3 <= Len(s) /\ IsSpace(s[i]) /\ has_at(s, i + 1, <<"P", "a">>)
            /\ IsSpace(s[i + 3])
         THEN <<",", " ", "P", "A", s[i + 3]>> \o pa_from(s, i + 4)
         ELSE <<s[i]>> \o pa_from(s, i + 1)

pa_token(s) == pa_from(s, 1)

RECURSIVE line_breaks(_)
\* str.replace(r'\s*\n\s*', ', ', regex=True)
line_breaks(s) ==
    IF s = <<>> THEN <<>>
    ELSE LET n == leading_spaces(s)
         IN IF \E k \in 1..n : s[k] = "\n"
            THEN <<",", " ">> \o line_breaks(SubSeq(s, n + 1, Len(s)))
            ELSE <<Head(s)>> \o line_breaks(Tail(s))

\* helpers/dictionaries/ap_addresses.py, in the order of the dict
AP_STREET_ABBREVIATIONS ==
    << <<<<"S", "t", "r", "e", "e", "t">>, <<"S", "t", ".">>>>,
       <<<<"A", "v", "e", "n", "u", "e">>, <<"A", "v", "e", ".">>>> >>

RECURSIVE street_types(_, _)
\* replace_street_type: one re.sub per entry, entry k onwards
street_types(s, k) ==
    IF k > Len(AP_STREET_ABBREVIATIONS) THEN s
    ELSE street_types(
            sub_word(s, AP_STREET_ABBREVIATIONS[k][1], AP_STREET_ABBREVIATIONS[k][2]),
            k + 1)

RECURSIVE periods(_)
\* re.sub(r"\.{2,}", ".", x)
periods(s) ==
    IF s = <<>> THEN <<>>
    ELSE IF Head(s) = "." THEN <<".">> \o periods(lstrip_chars(s, {"."}))
    ELSE <<Head(s)>> \o periods(Tail(s))

RECURSIVE commas(_)
\* re.sub(r",\s*,+", ", ", x)
commas(s) ==
    IF s = <<>> THEN <<>>
    ELSE LET rest == lstrip(Tail(s))
         IN IF Head(s) = "," /\ rest # <<>> /\ Head(rest) = ","
            THEN <<",", " ">> \o commas(lstrip_chars(rest, {","}))
            ELSE <<Head(s)>> \o commas(Tail(s))

(***************************************************************************)
(* helpers/cleaner.py: clean_data                                          *)
(***************************************************************************)
MaxRawRows == 2   \* inspection rows of the downloaded sheet, after its banner

new_column_names ==
    << "isp", "inspection_date", "inspection_reason", "facility", "address",
       "violation_code", "violation_description", "comment" >>

\* the header cells of the downloaded sheet, by position
RAW_COLUMNS == << "c1", "c2", "c3", "c4", "c5", "c6", "c7", "c8" >>

Range(seq) == { seq[i] : i \in DOMAIN seq }

\* df.columns = new_column_names when the sheet has that many columns
rename_columns(df) ==
    IF df.columns = Range(RAW_COLUMNS)
    THEN [columns |-> Range(new_column_names),
          rows |-> [i \in DOMAIN df.rows |->
                      [c \in Range(new_column_names) |->
                         df.rows[i][RAW_COLUMNS[CHOOSE k \in DOMAIN new_column_names :
                                                    new_column_names[k] = c]]]]]
    ELSE df

\* x.strip() if isinstance(x, str) else x
strip_cell(v) == IF v = NaN THEN NaN ELSE strip(v)

\* the rewrites of the facility column, lines 53-83
normalize_facility(v) ==
    IF v = NaN THEN NaN
    ELSE sub_word(
            sub_word(
                possessive(apostrophes(small_words(fix_ordinal_suffixes(title(v))))),
                <<"L", "l", "c">>, <<"L", "L", "C">>),
            <<"D", "b", "a">>, <<"D", "B", "A">>)

\* the rewrites of the address column before the city is taken, lines 86-122;
\* astype(str) makes a missing address the text "nan"
address_before_city(v) ==
    IF v = NaN THEN street_types(str_of(NaN), 1)
    ELSE street_types(line_breaks(pa_token(compass(title(v)))), 1)

\* the rewrites of the address column after the city is taken, lines 136-142
address_after_city(v) == commas(periods(fix_ordinal_suffixes(v)))

DigitSeq == <<"0", "1", "2", "3", "4", "5", "6", "7", "8", "9">>

digit_value(c) == (CHOOSE i \in DOMAIN DigitSeq : DigitSeq[i] = c) - 1

RECURSIVE int_of(_)
\* int(s) of a text of digits
int_of(s) ==
    IF s = <<>> THEN 0
    ELSE 10 * int_of(SubSeq(s, 1, Len(s) - 1)) + digit_value(s[Len(s)])

RECURSIVE text_of(_)
\* str(n) of a natural number
text_of(n) ==
    IF n < 10 THEN <<DigitSeq[n + 1]>> ELSE text_of(n \div 10) \o <<DigitSeq[(n % 10) + 1]>>

days_in(year, month) ==
    IF month = 2
    THEN (IF year % 4 = 0 /\ (year % 100 # 0 \/ year % 400 = 0) THEN 29 ELSE 28)
    ELSE IF month \in {4, 6, 9, 11} THEN 30 ELSE 31

NaT == [nat |-> TRUE, year |-> 0, month |-> 0, day |-> 0]

\* pd.to_datetime(cell, errors='coerce') of a YYYY-MM-DD text; NaT for a
\* missing cell and for text that is no date
to_datetime(v) ==
    IF /\ v # NaN /\ Len(v) = 10 /\ v[5] = "-" /\ v[8] = "-"
       /\ \A i \in {1, 2, 3, 4, 6, 7, 9, 10} : v[i] \in Digits
    THEN LET y == int_of(SubSeq(v, 1, 4))
             m == int_of(SubSeq(v, 6, 7))
             d == int_of(SubSeq(v, 9, 10))
         IN IF m \in 1..12 /\ d \in 1..days_in(y, m)
            THEN [nat |-> FALSE, year |-> y, month |-> m, day |-> d]
            ELSE NaT
    ELSE NaT

\* a may stand before b in the descending order, NaT last
date_ge(a, b) ==
    IF a.nat THEN b.nat
    ELSE b.nat \/ a.year * 10000 + a.month * 100 + a.day
                    >= b.year * 10000 + b.month * 100 + b.day

\* sort_values(by='inspection_date', ascending=False): the default sort is
\* not stable, so rows of one date come in any order
sorted_orders(dates) ==
    { p \in [DOMAIN dates -> DOMAIN dates] :
        /\ \A i, j \in DOMAIN dates : p[i] = p[j] => i = j
        /\ \A i, j \in DOMAIN dates : i < j => date_ge(dates[p[i]], dates[p[j]]) }

MONTH_NAMES ==
    << <<"J", "a", "n", "u", "a", "r", "y">>,
       <<"F", "e", "b", "r", "u", "a", "r", "y">>,
       <<"M", "a", "r", "c", "h">>,
       <<"A", "p", "r", "i", "l">>,
       <<"M", "a", "y">>,
       <<"J", "u", "n", "e">>,
       <<"J", "u", "l", "y">>,
       <<"A", "u", "g", "u", "s", "t">>,
       <<"S", "e", "p", "t", "e", "m", "b", "e", "r">>,
       <<"O", "c", "t", "o", "b", "e", "r">>,
       <<"N", "o", "v", "e", "m", "b", "e", "r">>,
       <<"D", "e", "c", "e", "m", "b", "e", "r">> >>

\* dt.strftime('%B %-d, %Y'); NaN for NaT
strftime(d) ==
    IF d.nat THEN NaN
    ELSE MONTH_NAMES[d.month] \o <<" ">> \o text_of(d.day) \o <<",", " ">>
            \o text_of(d.year)

\* helpers/dictionaries/ap_months.py
AP_MONTHS ==
    << <<<<"S", "e", "p", "t", "e", "m", "b", "e", "r">>, <<"S", "e", "p", "t", ".">>>> >>

RECURSIVE sub_text_from(_, _, _, _)
\* re.sub(w, repl, s) for a literal w, from index i
sub_text_from(s, i, w, repl) ==
    IF i > Len(s) THEN <<>>
    ELSE IF has_at(s, i, w) THEN repl \o sub_text_from(s, i + Len(w), w, repl)
    ELSE <<s[i]>> \o sub_text_from(s, i + 1, w, repl)

RECURSIVE ap_months(_, _)
\* the month names of AP_MONTHS rewritten, entry k onwards
ap_months(v, k) ==
    IF v = NaN \/ k > Len(AP_MONTHS) THEN v
    ELSE ap_months(sub_text_from(v, 1, AP_MONTHS[k][1], AP_MONTHS[k][2]), k + 1)

CleanCols == Range(new_column_names) \cup {"city"}

GroupCols == {"facility", "address", "inspection_date"}

JoinedCols == {"violation_code", "violation_description", "comment"}

\* the rows of the frame as they are before the sort, with to_datetime dates
cleaned_rows(df) ==
    [i \in DOMAIN df.rows |->
        LET r == [c \in df.columns |-> strip_cell(df.rows[i][c])]
            before == address_before_city(r["address"])
        IN [c \in CleanCols |->
              CASE c = "facility" -> normalize_facility(r["facility"])
                [] c = "address" -> address_after_city(before)
                [] c = "city" -> extract_city(before)
                [] c = "inspection_date" -> ap_months(strftime(to_datetime(r[c])), 1)
                [] OTHER -> r[c]]]

\* Python's order of two cells, a missing cell after every text
cell_cmp(a, b) ==
    IF a = NaN /\ b = NaN THEN 0
    ELSE IF a = NaN THEN 1
    ELSE IF b = NaN THEN -1
    ELSE str_cmp(a, b)

\* group key a sorts before group key b
group_lt(a, b) ==
    LET f == cell_cmp(a["facility"], b["facility"])
        d == cell_cmp(a["address"], b["address"])
        t == cell_cmp(a["inspection_date"], b["inspection_date"])
    IN IF f # 0 THEN f < 0 ELSE IF d # 0 THEN d < 0 ELSE t < 0

GroupKey(r) == [c \in GroupCols |-> r[c]]

\* combine_violations: the first row of the group, with the non-null values
\* of the three list columns joined by " | "
combine_violations(group) ==
    [c \in CleanCols |->
        LET present == select_seq(group, { i \in DOMAIN group : group[i][c] # NaN })
        IN IF c \in JoinedCols /\ present # <<>>
           THEN join([i \in DOMAIN present |-> present[i][c]], PIPE_SEP)
           ELSE group[1][c]]

\* groupby([...], as_index=False, dropna=False).apply(combine_violations):
\* one record per key, in the order of the keys
group_records(rows) ==
    LET keys == { GroupKey(rows[i]) : i \in DOMAIN rows }
        rank(k) == 1 + Cardinality({ other \in keys : group_lt(other, k) })
        members(k) == select_seq(rows, { i \in DOMAIN rows : GroupKey(rows[i]) = k })
    IN [n \in 1..Cardinality(keys) |->
          combine_violations(members(CHOOSE k \in keys : rank(k) = n))]

\* argsort drawing the order of equal dates afresh in every call
argsort_random(sheet, dates) == sorted_orders(dates)

\* the order sort_values gives the rows of a sheet: not stable, but the same
\* in every call on the same sheet
argsort(sheet, dates) ==
    { p \in sorted_orders(dates) :
        \A n \in DOMAIN log :
            (log[n].op = "clean" /\ log[n].ret = "ok" /\ log[n].table = sheet)
                => log[n].arg = p }

clean_data ==
    /\ LET raw == read_csv(table)
           df == rename_columns([columns |-> raw.columns,
                                 rows |-> SubSeq(raw.rows, 3, Len(raw.rows))])
           call == [NoCall EXCEPT !.op = "clean", !.ret = "failed", !.table = table]
       IN IF ~table.exists \/ ~(Range(new_column_names) \subseteq df.columns)
             \/ "city" \in df.columns
          THEN log' = Append(log, call) /\ table' = table
          ELSE LET rows == cleaned_rows(df)
                   dates == [i \in DOMAIN df.rows |->
                               to_datetime(strip_cell(df.rows[i]["inspection_date"]))]
               IN \E p \in argsort(table, dates) :
                    /\ table' = to_csv([columns |-> CleanCols,
                                        rows |-> group_records(
                                                    [i \in DOMAIN rows |-> rows[p[i]]])])
                    /\ log' = Append(log, [call EXCEPT !.ret = "ok", !.arg = p])
    /\ UNCHANGED <<aws, s3, local>>

RawRow(facility, address, date, code, description) ==
    [c \in Range(RAW_COLUMNS) |->
        CASE c = "c1" -> <<"7">>
          [] c = "c2" -> date
          [] c = "c3" -> <<"R", "e", "g", "u", "l", "a", "r">>
          [] c = "c4" -> facility
          [] c = "c5" -> address
          [] c = "c6" -> code
          [] c = "c7" -> description
          [] c = "c8" -> Empty]

\* 1 main street, erie pa 16501
MainStreet ==
    <<"1", " ", "m", "a", "i", "n", " ", "s", "t", "r", "e", "e", "t", ",", " ", "e", "r", "i", "e", " ", "p", "a", " ", "1", "6", "5", "0", "1">>

\* 2 E 1ST avenue, a line break, erie, PA 16501
FirstAvenue ==
    <<"2", " ", "E", " ", "1", "S", "T", " ", "a", "v", "e", "n", "u", "e", "\n", "e", "r", "i", "e", ",", " ", "P", "A", " ", "1", "6", "5", "0", "1">>

SeptemberFifth == <<"2", "0", "2", "4", "-", "0", "9", "-", "0", "5">>

MarchTwelfth == <<"2", "0", "2", "4", "-", "0", "3", "-", "1", "2">>

\* Inspection rows of the sheet: three violations of one facility at one
\* address, two of them on the same day; the same facility written in lower
\* case, without a violation; a second facility and a third with a date
\* that is no date.
RawRows ==
    { RawRow(<<"J", "O", "E", "'", "S", " ", "P", "I", "Z", "Z", "A", " ", "L", "L", "C">>, MainStreet, SeptemberFifth, <<"1">>, <<"x">>),
      RawRow(<<"J", "O", "E", "'", "S", " ", "P", "I", "Z", "Z", "A", " ", "L", "L", "C">>, MainStreet, SeptemberFifth, <<"2">>, <<"y">>),
      RawRow(<<"J", "O", "E", "'", "S", " ", "P", "I", "Z", "Z", "A", " ", "L", "L", "C">>, MainStreet, MarchTwelfth, <<"3">>, Empty),
      RawRow(<<" ", "j", "o", "e", "'", "s", " ", "p", "i", "z", "z", "a", " ", "l", "l", "c">>, MainStreet, SeptemberFifth, Empty, Empty),
      RawRow(<<"b", "a", "r", " ", "o", "f", " ", "1", "S", "T">>, FirstAvenue, MarchTwelfth, <<"1">>, <<"x">>),
      RawRow(<<"b", "a", "r", " ", "o", "f", " ", "1", "S", "T">>, FirstAvenue, SeptemberFifth, <<"2">>, <<"y">>),
      RawRow(Empty, Empty, <<"t", "b", "d">>, <<"2">>, <<"y">>) }

Banner == [c \in Range(RAW_COLUMNS) |-> Empty]

\* The file clean_data is given: the sheet with its two banner rows, a sheet
\* that lacks a column, or no readable file.
RawTables ==
    { File(Range(RAW_COLUMNS), <<Banner, Banner>> \o rows) :
        rows \in SeqsUpTo(RawRows, MaxRawRows) }
        \cup {NoFile, File(Range(RAW_COLUMNS) \ {"c8"}, <<>>)}

\* One clean_data call on a downloaded sheet.
InitClean ==
    /\ aws = FALSE
    /\ s3 = NoFile
    /\ local = NoFile
    /\ table \in RawTables
    /\ log = <<>>

NextClean == calls = 0 /\ clean_data

SpecClean == InitClean /\ [][NextClean]_vars

(***************************************************************************)
(* The run: clean_data, join_violation_details, upsert_categories,         *)
(* join_categories_into_inspections, twice                                 *)
(***************************************************************************)
RunSheetRows == 2   \* inspection rows of the sheet of a run

\* the store entry of the facility of MainStreet, as clean_data writes its key
JoesEntry ==
    [facility |-> <<"J", "o", "e", "'", "s", " ", "P", "i", "z", "z", "a", " ", "L", "L", "C">>,
     address |-> <<"1", " ", "M", "a", "i", "n", " ", "S", "t", ".", ",", " ", "E", "r", "i", "e", ",", " ", "P", "A", " ", "1", "6", "5", "0", "1">>,
     city |-> <<"E", "r", "i", "e">>,
     category |-> Pizza]

\* Sheets of a run: violations of one facility on one day.
RunSheets ==
    { File(Range(RAW_COLUMNS), <<Banner, Banner>> \o rows) :
        rows \in SeqsUpTo(
            { RawRow(<<"J", "O", "E", "'", "S", " ", "P", "I", "Z", "Z", "A", " ", "L", "L", "C">>, MainStreet, SeptemberFifth, <<"1">>, <<"x">>),
              RawRow(<<"J", "O", "E", "'", "S", " ", "P", "I", "Z", "Z", "A", " ", "L", "L", "C">>, MainStreet, SeptemberFifth, <<"2">>, <<"y">>) },
            RunSheetRows) }

\* The store before the first run: none, or the labelled JoesEntry.
RunStores == {NoFile, File(BaseCols, <<JoesEntry>>)}

InitPipeline == InitWith(RunStores, RunSheets)

\* the runs that have ended: a run ends with its join
runs == Cardinality({ n \in DOMAIN log : log[n].op = "join" })

\* the stage that ran last
stage == IF calls = 0 THEN "none" ELSE log[Len(log)].op

\* the export saved over inspections.xlsx: the sheet of the first run again
acquire ==
    /\ table' = log[1].table
    /\ log' = Append(log, [NoCall EXCEPT !.op = "acquire", !.s3 = s3,
                              !.local = local, !.table = table])
    /\ UNCHANGED <<aws, s3, local>>

\* The four stages run twice, the second time on the file the first run left
\* or on the sheet saved again.
NextPipeline ==
    \/ (calls = 0 \/ (runs = 1 /\ stage \in {"join", "acquire"})) /\ clean_data
    \/ stage = "clean" /\ join_violation_details
    \/ stage = "violations" /\ upsert_categories
    \/ stage = "upsert" /\ join_categories_into_inspections
    \/ runs = 1 /\ stage = "join" /\ acquire

SpecPipeline == InitPipeline /\ [][NextPipeline]_vars

(***************************************************************************)
(* The labeler between the reconcile stages                                *)
(***************************************************************************)
\* The store before the run: none, one labelled entry, or one entry without
\* a label; the working table holds one or two triples.
InitLabelRun ==
    InitWith({NoFile, File(BaseCols, <<StoreRow(TripleB, Pizza)>>),
              File(BaseCols, <<StoreRow(TripleA, Empty)>>)},
             {File(KeyCols, <<TripleA>>), File(KeyCols, <<TripleA, TripleB>>)})

\* upsert, the labeler, then the final join or a later upsert.
NextLabelRun ==
    \/ calls = 0 /\ upsert_categories
    \/ calls = 1 /\ label_categories_via_ai
    \/ calls = 2 /\ join_categories_into_inspections
    \/ calls = 2 /\ upsert_categories

SpecLabelRun == InitLabelRun /\ [][NextLabelRun]_vars

(***************************************************************************)
(* Two runs on one bucket: the read and the write of a stage are two steps *)
(***************************************************************************)
\* the sheets of the two runs that share the bucket: each run has its own
RaceTables == {File(KeyCols, <<TripleA>>), File(KeyCols, <<TripleB>>)}

\* the calls that have read the store and not yet written it
in_flight == { n \in DOMAIN log : ~log[n].done }

\* the calls that have returned
ended == Cardinality({ n \in DOMAIN log : log[n].done })

\* upsert_categories up to its get_object: the batch and the store are in
\* memory, nothing is written yet
upsert_read ==
    /\ \E t \in RaceTables, rd \in Outcomes :
         /\ \A n \in DOMAIN log : log[n].op = "upsert" => log[n].table # t
         /\ log' = Append(log,
                    [NoCall EXCEPT !.op = "upsert", !.done = FALSE,
                        !.alone = (in_flight = {}), !.table = t,
                        !.rd = get_object(rd), !.s3 = s3, !.local = local,
                        !.loaded = load_existing(rd).rows])
    /\ UNCHANGED <<aws, s3, local, table>>

\* upsert_categories from its merge on: categories.csv and put_object
upsert_write ==
    /\ \E n \in in_flight, wr \in Outcomes :
         LET combined == merge_categories([columns |-> BaseCols, rows |-> log[n].loaded],
                                          uniques_of(read_csv(log[n].table)))
         IN /\ log[n].op = "upsert"
            /\ local' = to_csv(combined)
            /\ s3' = put_object(wr, to_csv(combined))
            /\ log' = [log EXCEPT ![n].done = TRUE, ![n].wr = wr,
                                  ![n].ret = "categories.csv",
                                  ![n].end = ended + 1, ![n].body = to_csv(combined)]
    /\ UNCHANGED <<aws, table>>

\* label_categories_via_ai up to its candidates: the store is in memory
label_read ==
    /\ \A n \in DOMAIN log : log[n].op # "label"
    /\ \E rd \in Outcomes :
         LET src == store_source(rd)
             cats == load_categories_df(src)
             pending == pending_of(cats, MaxLimit)
         IN log' = Append(log,
                       [NoCall EXCEPT !.op = "label", !.ret = 0,
                           !.done = (pending = <<>>), !.alone = (in_flight = {}),
                           !.end = IF pending = <<>> THEN ended + 1 ELSE 0,
                           !.rd = get_object(rd), !.s3 = s3, !.local = local,
                           !.src = src, !.loaded = cats.rows, !.limit = MaxLimit,
                           !.pending = pending, !.items = items_of(pending)])
    /\ UNCHANGED <<aws, s3, local, table>>

\* label_categories_via_ai from the LLM reply on: the predictions applied to
\* the store in memory, then _save_categories_df
label_write ==
    /\ \E n \in in_flight, text \in RunReplies :
         LET applied == apply_predictions(log[n].loaded, log[n].items, parse_jsonl(text), 0)
             body == to_csv([columns |-> AllCols, rows |-> applied.rows])
             replied == [log[n] EXCEPT !.done = TRUE, !.text = text, !.llm = "reply",
                                       !.end = ended + 1]
         IN /\ log[n].op = "label"
            /\ IF applied.applied = 0
               THEN /\ log' = [log EXCEPT ![n] = replied]
                    /\ UNCHANGED <<s3, local>>
               ELSE \E wr \in Outcomes :
                      /\ save_categories_df(wr, body)
                      /\ log' = [log EXCEPT ![n] =
                                    [replied EXCEPT !.ret = applied.applied,
                                        !.applied = applied.applied, !.wr = wr,
                                        !.body = body]]
    /\ UNCHANGED <<aws, table>>

\* The bucket holds no store or one entry without a label; two upserts and a
\* labeler call run against it, their steps in any order.
InitRace ==
    /\ aws = TRUE
    /\ s3 \in {NoFile, File(BaseCols, <<StoreRow(TripleA, Empty)>>)}
    /\ local = NoFile
    /\ table = NoFile
    /\ log = <<>>

NextRace ==
    \/ upsert_read
    \/ upsert_write
    \/ label_read
    \/ label_write

SpecRace == InitRace /\ [][NextRace]_vars

(***************************************************************************)
(* Properties.                                                             *)
(***************************************************************************)
last == log[Len(log)]

after(op) == calls > 0 /\ last.op = op

\* the (facility, address, city) triples of a file's rows, as stored
TriplesOf(f) == { Triple(f.rows[i]) : i \in DOMAIN f.rows }

\* the stripped triples of the working table upsert was given
BatchTriples(f) ==
    { [c \in KeyCols |-> fillna_strip(read_cell(f.rows[i][c]))] : i \in DOMAIN f.rows }

HasRow(f, t, label) ==
    \E i \in DOMAIN f.rows : Triple(f.rows[i]) = t /\ f.rows[i].category = label

\* every labelled row of file before is in file now with the same label
LabelsKept(before, now) ==
    \A i \in DOMAIN before.rows :
        before.rows[i].category # Empty =>
            HasRow(now, Triple(before.rows[i]), before.rows[i].category)

UniqueKeys(f) ==
    \A i, j \in DOMAIN f.rows : Triple(f.rows[i]) = Triple(f.rows[j]) => i = j

KeySorted(f) ==
    \A i, j \in DOMAIN f.rows : i < j => key_le(f.rows[i], f.rows[j])

\* the persisted store of a deployment: the S3 object, or the local file when
\* AWS is not configured
StoreOf(remote, file) == IF aws THEN remote ELSE file

\* C1 (the claim as stated; the code violates it): after upsert_categories,
\* every store row that had a non-empty label before the call still has that
\* label, in the S3 object and in the local file alike, whether AWS is
\* configured or not and whether the S3 read failed or not.
C1_LabelPreservation ==
    after("upsert") => LabelsKept(last.s3, s3) /\ LabelsKept(last.local, local)

\* C2 (the claim as stated; the code violates it): no call deletes an entry:
\* a triple that is in the S3 object or in the local file before a call is in
\* it after the call.
C2_MonotonicAccretion ==
    calls > 0 =>
        /\ TriplesOf(last.s3) \subseteq TriplesOf(s3)
        /\ TriplesOf(last.local) \subseteq TriplesOf(local)

\* C3 (the claim as stated; the code violates it): every store written by
\* upsert_categories, the local file and the S3 object when its upload
\* succeeded, holds at most one row per (facility, address, city) triple.
C3_KeyUniqueness ==
    after("upsert") => UniqueKeys(local) /\ (last.wr = "ok" => UniqueKeys(s3))

\* C4 (the claim as stated; the code violates it): after upsert_categories
\* every distinct triple of the batch is a row of the written store, and a
\* triple that was not in the store before has an empty label there.
C4_InsertIfAbsent ==
    after("upsert") =>
        \A t \in BatchTriples(last.table) :
            /\ t \in TriplesOf(local)
            /\ t \notin TriplesOf(StoreOf(last.s3, last.local)) => HasRow(local, t, Empty)

\* the labels the loaded store holds for triple t, cells read as join reads them
LoadedLabels(loaded, t) ==
    { fillna_strip(loaded[i].category) :
        i \in { j \in DOMAIN loaded :
                  [c \in KeyCols |-> fillna_strip(loaded[j][c])] = t } }

\* C5: after join_categories_into_inspections with a store it could load,
\* the written table has the rows of the table it read, each with its join
\* fields stripped; a row whose triple is in the loaded store carries a label
\* the store holds for that triple (the label, when the triple has one row),
\* and a row whose triple is absent carries the empty label.
C5_JoinCorrectness ==
    after("join") /\ last.src # "none" =>
        /\ Len(table.rows) = Len(last.table.rows)
        /\ \A i \in DOMAIN table.rows :
             LET t == Triple(table.rows[i])
                 labels == LoadedLabels(last.loaded, t)
             IN /\ t = [c \in KeyCols |-> fillna_strip(read_cell(last.table.rows[i][c]))]
                /\ IF labels = {} THEN table.rows[i].category = Empty
                   ELSE table.rows[i].category \in labels

\* C5's case: a join that found a non-empty label for one row and no store
\* entry for another, whose "||" key string is the one of a labelled entry.
C5_Witness ==
    /\ after("join") /\ last.src # "none"
    /\ \E i, j \in DOMAIN table.rows :
         /\ table.rows[i].category # Empty
         /\ LoadedLabels(last.loaded, Triple(table.rows[j])) = {}
         /\ composite_key(table.rows[i]) = composite_key(table.rows[j])

\* the S3 calls of call a failed exactly where those of call b failed
SameFaults(a, b) ==
    /\ (a.rd = "error") = (b.rd = "error")
    /\ (a.wr = "error") = (b.wr = "error")

C7_DegradedUpsert ==
    after("upsert") /\ last.rd # "error" =>
        /\ last.ret = "categories.csv"
        /\ KeySorted(local)
        /\ TriplesOf(StoreOf(last.s3, last.local)) \subseteq TriplesOf(local)

ItemTriples(items) == { Triple(items[k]) : k \in DOMAIN items }

\* C8: a labeler call that applied nothing writes nothing; one that applied
\* predictions writes the loaded store with every row that had a non-empty
\* label unchanged, and with changes only in rows that had an empty label and
\* the triple of a submitted candidate; the S3 object is that same store, or
\* is untouched when AWS is unconfigured or the upload failed.
C8_ApplicationGuard ==
    after("label") =>
        IF last.applied = 0
        THEN s3 = last.s3 /\ local = last.local
        ELSE /\ Len(local.rows) = Len(last.loaded)
             /\ s3 \in {last.s3, local}
             /\ \A i \in DOMAIN local.rows :
                  /\ last.loaded[i].category # Empty => local.rows[i] = last.loaded[i]
                  /\ local.rows[i] # last.loaded[i] =>
                        /\ last.loaded[i].category = Empty
                        /\ Triple(last.loaded[i]) \in ItemTriples(last.items)

\* C8's case: the loaded store held a labelled and an unlabelled row of the
\* same triple, and the labeler filled the unlabelled one.
C8_Witness ==
    /\ after("label") /\ last.applied > 0
    /\ \E i, j \in DOMAIN last.loaded :
         /\ last.loaded[i].category # Empty
         /\ last.loaded[j].category = Empty
         /\ Triple(last.loaded[i]) = Triple(last.loaded[j])
         /\ local.rows[j].category # Empty

\* the triples of the loaded store's rows that have an empty label
Candidates(loaded) ==
    { Triple(loaded[i]) : i \in { j \in DOMAIN loaded : loaded[j].category = Empty } }

\* C9 (the claim as stated; the code violates it): when the LLM call of a
\* batch fails or its reply has no parseable prediction, the candidates of
\* the later batches are still submitted in that run.
C9_BatchFailureIsolation ==
    after("label") /\ last.llm \in {"apierror", "noparse"} =>
        Candidates(last.loaded) \subseteq ItemTriples(last.items)

\* C10 (the claim as stated; the code violates it): a labeler run that
\* reaches the LLM submits every triple that has an empty label in the store,
\* each exactly once.
C10_AllCandidatesSubmitted ==
    after("label") /\ last.llm \in {"apierror", "noparse", "reply"} =>
        /\ Candidates(last.loaded) = ItemTriples(last.items)
        /\ \A j, k \in DOMAIN last.items :
             Triple(last.items[j]) = Triple(last.items[k]) => j = k

\* str.lower() on the letters a placeholder label is spelled with
lower_char(c) ==
    CASE c = "O" -> "o"
      [] c = "T" -> "t"
      [] c = "H" -> "h"
      [] c = "E" -> "e"
      [] c = "R" -> "r"
      [] c = "U" -> "u"
      [] c = "N" -> "n"
      [] c = "K" -> "k"
      [] c = "W" -> "w"
      [] OTHER -> c

lower_text(v) == [i \in DOMAIN v |-> lower_char(v[i])]

\* a free-text label that names nothing: missing, "unknown" or "other"
IsPlaceholder(v) ==
    lower_text(v) \in { Empty, <<"u", "n", "k", "n", "o", "w", "n">>,
                        <<"o", "t", "h", "e", "r">> }

\* C11 (the claim as stated; the code violates it): every store row the
\* labeler applied a prediction to carries an ai_category that is neither
\* empty nor "unknown"/"other" in any case: a placeholder prediction is
\* replaced by a label made from the facility name.
C11_FallbackLabeling ==
    after("label") /\ last.applied > 0 =>
        \A i \in DOMAIN local.rows :
            local.rows[i] # last.loaded[i] => ~IsPlaceholder(local.rows[i].ai_category)

\* the lines of a reply that are JSON objects on a line of their own
JsonLines(text) == { i \in DOMAIN text : text[i].kind = "json" }

\* a reply of well-formed JSON object lines that carry distinct ids of the
\* submitted candidates, and of lines that are no JSON
WellFormedOrNoise(text, items) ==
    /\ \A i \in DOMAIN text : text[i].kind \in {"json", "prose", "fence", "braces"}
    /\ \A i \in JsonLines(text) :
         /\ \E k \in DOMAIN items : items[k].id = text[i].whole[1].id
         /\ \A j \in JsonLines(text) : text[j].whole[1].id = text[i].whole[1].id => i = j

\* the submitted candidates with a store row that the call changed
AppliedItems(c) ==
    { k \in DOMAIN c.items :
        \E i \in DOMAIN c.loaded :
            Triple(c.loaded[i]) = Triple(c.items[k]) /\ local.rows[i] # c.loaded[i] }

\* C12: a labeler call whose reply is k well-formed JSON object lines with
\* distinct candidate ids and any number of lines that are no JSON returns
\* normally; with k = 0 it writes nothing and returns 0; with k > 0 it has
\* applied exactly k predictions: the k candidates named by the lines, and no
\* other, have their unlabelled store rows filled with the prediction of
\* their line.
C12_TolerantParsing ==
    after("label") /\ last.llm \in {"noparse", "reply"}
                   /\ WellFormedOrNoise(last.text, last.items) =>
        LET k == Cardinality(JsonLines(last.text))
        IN /\ last.ret \in Nat
           /\ IF k = 0
              THEN last.ret = 0 /\ s3 = last.s3 /\ local = last.local
              ELSE /\ last.ret >= k
                   /\ Cardinality(AppliedItems(last)) = k
                   /\ \A j \in JsonLines(last.text), n \in DOMAIN last.items,
                        i \in DOMAIN last.loaded :
                          /\ last.items[n].id = last.text[j].whole[1].id
                          /\ Triple(last.loaded[i]) = Triple(last.items[n])
                          /\ last.loaded[i].category = Empty
                          => \A c \in LabelCols :
                               local.rows[i][c] = prediction_of(last.text[j].whole[1])[c]

\* C12's case: a reply with a JSON object line and a line that is no JSON,
\* and the prediction of the object line is in the written store.
C12_Witness ==
    /\ after("label") /\ last.llm = "reply"
    /\ WellFormedOrNoise(last.text, last.items)
    /\ JsonLines(last.text) # {}
    /\ \E i \in DOMAIN last.text : last.text[i].kind \in {"prose", "fence", "braces"}
    /\ AppliedItems(last) # {}

\* C13: a labeler call made without the LLM API key (or SDK) returns 0, makes
\* no LLM call, and leaves the S3 object and the local file as they were.
C13_NoCredentialsNoOp ==
    after("label") /\ ~last.key =>
        /\ last.ret = 0
        /\ last.llm \in {"none", "nokey"}
        /\ last.items = <<>> /\ last.text = <<>>
        /\ s3 = last.s3
        /\ local = last.local

\* C13's case: the store had candidates to submit and the key was missing.
C13_Witness ==
    /\ after("label") /\ ~last.key
    /\ last.pending # <<>>
    /\ last.llm = "nokey"

\* C14 (the claim as stated; the code violates it): after a join that could
\* load the store neither from S3 nor from the local file, the written table
\* has a label column and every row's label is empty, also when the table
\* came with labels.
C14_EmptyLabelsWithoutStore ==
    after("join") /\ last.src = "none" =>
        /\ "category" \in table.columns
        /\ \A i \in DOMAIN table.rows : table.rows[i].category = Empty

\* C15: a call of upsert_categories, join_categories_into_inspections or
\* label_categories_via_ai on a working table that cannot be read or lacks
\* one of facility, address, city returns its failure value ("", False, 0)
\* and leaves the working table, the local file and the S3 object untouched.
C15_InputShapeErrors ==
    calls > 0 /\ ~required_present(last.table) =>
        /\ last.ret = (CASE last.op = "upsert" -> ""
                         [] last.op = "join" -> "False"
                         [] last.op = "label" -> 0)
        /\ table = last.table
        /\ local = last.local
        /\ s3 = last.s3

\* C15's case: a call on a table without its city column, with a store that
\* holds a row.
C15_Witness ==
    /\ calls > 0
    /\ last.table.exists /\ "city" \notin last.table.columns
    /\ last.table.rows # <<>>
    /\ StoreOf(last.s3, last.local).rows # <<>>

returned(op) == calls = 1 /\ log[1].op = op /\ log[1].done

\* C18 (the claim as stated): clean_violation_code("103.4(a)(1) - Equipment")
\* returns "103.4 - Equipment".
C18_CleanedKeepsWord ==
    returned("clean_violation_code") /\ last.arg = EquipmentCode =>
        last.ret = <<"1", "0", "3", ".", "4", " ", "-", " ", "E", "q", "u", "i", "p", "m", "e", "n", "t">>

\* C18 (amended): clean_violation_code("103.4(a)(1) - Equipment") returns
\* "103.4"; every result is free of letters and of parenthesized substrings,
\* has no two spaces in a row, and neither starts nor ends with a hyphen, a
\* period or a space.
C18_CleanViolationCode ==
    returned("clean_violation_code") =>
        /\ last.arg = EquipmentCode => last.ret = <<"1", "0", "3", ".", "4">>
        /\ \A i \in DOMAIN last.ret : last.ret[i] \notin Letters
        /\ \A i, j \in DOMAIN last.ret : ~(i < j /\ last.ret[i] = "(" /\ last.ret[j] = ")")
        /\ \A i \in DOMAIN last.ret :
             i < Len(last.ret) => ~(last.ret[i] = " " /\ last.ret[i + 1] = " ")
        /\ last.ret # <<>> =>
             /\ Head(last.ret) \notin {"-", ".", " "}
             /\ last.ret[Len(last.ret)] \notin {"-", ".", " "}

\* C18's case: the scenario's code has been cleaned.
C18_Witness ==
    returned("clean_violation_code") /\ last.arg = EquipmentCode /\ last.ret # <<>>

\* the risk label of one priority element
RiskOf(part) ==
    IF part = <<"P">> THEN <<"h", "i", "g", "h", " ", "r", "i", "s", "k">>
    ELSE IF part = <<"P", "f">> THEN <<"m", "o", "d", "e", "r", "a", "t", "e", " ", "r", "i", "s", "k">>
    ELSE IF part = <<"C">> THEN <<"l", "o", "w", " ", "r", "i", "s", "k">>
    ELSE NA

\* C17: translate_priority_to_risk of a string returns as many elements,
\* separated by ", ", as the string has comma-separated elements, the i-th
\* being the label of the i-th element trimmed: "high risk" for P,
\* "moderate risk" for Pf, "low risk" for C, "NA" for anything else; so "P"
\* gives "high risk", "P, C" gives "high risk, low risk" and "" gives "NA".
C17_PriorityToRisk ==
    returned("translate_priority_to_risk") /\ last.arg # None =>
        LET ins == split(last.arg, ",")
            outs == split(last.ret, ",")
        IN /\ Len(outs) = Len(ins)
           /\ \A i \in DOMAIN outs :
                /\ outs[i] = (IF i = 1 THEN <<>> ELSE <<" ">>) \o RiskOf(strip(ins[i]))
           /\ last.arg = <<"P">> => last.ret = <<"h", "i", "g", "h", " ", "r", "i", "s", "k">>
           /\ last.arg = <<"P", ",", " ", "C">> => last.ret = <<"h", "i", "g", "h", " ", "r", "i", "s", "k", ",", " ", "l", "o", "w", " ", "r", "i", "s", "k">>
           /\ last.arg = Empty => last.ret = NA

\* C17's case: a list of two elements, the second after a space, translated.
C17_Witness ==
    /\ returned("translate_priority_to_risk")
    /\ last.arg = <<"P", ",", " ", "C">>
    /\ last.ret = <<"h", "i", "g", "h", " ", "r", "i", "s", "k", ",", " ", "l", "o", "w", " ", "r", "i", "s", "k">>

\* the violation codes of a record as the working table holds them
CodesOf(row) ==
    IF strip(row["violation_code"]) = Empty THEN <<>>
    ELSE LET raw == split(row["violation_code"], "|")
         IN [i \in DOMAIN raw |-> strip(raw[i])]

\* the descriptions of a record, position by position
DescriptionsOf(row) ==
    LET raw == split(row["violation_description"], "|")
    IN [i \in DOMAIN raw |-> strip(raw[i])]

\* element k of a " | "-joined cell
ElementAt(cell, k) ==
    LET raw == split(cell, "|")
    IN IF k <= Len(raw) THEN <<strip(raw[k])>> ELSE <<>>

\* the Requirement keys of the lookup table the call built
LookupKeys(codes) ==
    { fillna_strip(read_cell(codes.rows[i]["Requirement"])) : i \in DOMAIN codes.rows }
        \ {Empty}

\* C16 (the claim as stated; the code violates it): in the table written by
\* join_violation_details, at the position of every violation code whose
\* cleaned form is not a key of the lookup table, spotlight_pa, priority_level
\* and risk_level are "NA" and requirement_description is the record's own
\* description of that position (empty when it has none).
C16_LookupMissFallback ==
    after("violations") /\ last.ret = "True"
                        /\ ViolationCols \subseteq last.table.columns =>
        \A i \in DOMAIN last.table.rows :
            LET codes == CodesOf(last.table.rows[i])
                descs == DescriptionsOf(last.table.rows[i])
            IN \A k \in DOMAIN codes :
                 clean_violation_code(codes[k]) \notin LookupKeys(last.codes) =>
                    /\ ElementAt(table.rows[i]["spotlight_pa"], k) = <<NA>>
                    /\ ElementAt(table.rows[i]["priority_level"], k) = <<NA>>
                    /\ ElementAt(table.rows[i]["risk_level"], k) = <<NA>>
                    /\ ElementAt(table.rows[i]["requirement_description"], k)
                         = <<padded(descs, k)>>

\* a comma-delimited segment that holds the state token: \s*PA\s and more
IsStateSegment(seg) ==
    LET rest == lstrip(seg)
    IN Len(rest) >= 3 /\ SubSeq(rest, 1, 2) = <<"P", "A">> /\ rest[3] = " "

\* the non-empty segments with a comma on either side whose next segment
\* holds the state token
CitySegments(segs) ==
    { k \in 2..(Len(segs) - 1) : segs[k] # <<>> /\ IsStateSegment(segs[k + 1]) }

\* C19: extract_city returns, trimmed, the segment between two commas that
\* immediately precedes the comma of the state token "PA " (the first such
\* non-empty segment), and the empty string when the address has no such
\* segment or is no text; "123 Main St., Erie, PA 16501" gives "Erie" and
\* "123 Main St." gives "".
C19_CityExtraction ==
    returned("extract_city") =>
        /\ last.arg = ErieAddress => last.ret = <<"E", "r", "i", "e">>
        /\ last.arg = MainAddress => last.ret = Empty
        /\ last.arg = NaN => last.ret = Empty
        /\ last.arg # NaN =>
             LET segs == split(last.arg, ",")
                 cities == CitySegments(segs)
             IN IF cities = {} THEN last.ret = Empty
                ELSE last.ret = strip(segs[CHOOSE k \in cities : \A j \in cities : k <= j])

\* C19's case: a city was extracted from the scenario's address.
C19_Witness ==
    returned("extract_city") /\ last.arg = ErieAddress /\ last.ret # Empty

\* The inspection rows of the sheet a clean_data call was given.
RawData(call) == SubSeq(call.table.rows, 3, Len(call.table.rows))

\* Two inspection rows of one facility at one address, hence of one city,
\* with two different violation codes.
SamePlace(a, b) ==
    /\ a["c4"] = b["c4"] /\ a["c5"] = b["c5"]
    /\ a["c6"] # Empty /\ b["c6"] # Empty /\ a["c6"] # b["c6"]

\* C20: End-to-end collapse: after a successful clean_data, any two rows of
\* the sheet with the same facility, address and city but different
\* violation codes are in one written record, whose violation_code lists
\* the code of the earlier row before the code of the later row.
C20_EndToEndCollapse ==
    \A n \in DOMAIN log :
        (log[n].op = "clean" /\ log[n].ret = "ok") =>
            \A i, j \in DOMAIN RawData(log[n]) :
                (i < j /\ SamePlace(RawData(log[n])[i], RawData(log[n])[j])) =>
                    \E r \in DOMAIN table.rows :
                        LET codes == split(table.rows[r]["violation_code"], "|")
                        IN \E a, b \in DOMAIN codes :
                              /\ a < b
                              /\ strip(codes[a]) = strip(RawData(log[n])[i]["c6"])
                              /\ strip(codes[b]) = strip(RawData(log[n])[j]["c6"])


\* Stage k of the second run had its S3 calls fail where those of stage k of
\* the first run failed (k = 2, 3, 4: the Resolver, upsert, join).
SameRunFaults ==
    \A k \in 2..4 : SameFaults(log[k], log[calls - 4 + k])

LabelledRows(c, saved) ==
    IF c.applied = 0 THEN {}
    ELSE { i \in DOMAIN c.loaded :
             c.loaded[i].category = Empty /\ saved.rows[i].category # Empty }

\* C22 (the claim as stated; the code violates it): in the run upsert, AI
\* labeling, join, every row of the joined table whose triple the labeler
\* labelled carries the label the labeler saved for it, with AWS configured
\* or not and whether the labeler's S3 upload failed or not.
C22_LabelsReachJoin ==
    (calls = 3 /\ log[2].op = "label" /\ log[3].op = "join") =>
        \A i \in LabelledRows(log[2], log[3].local) :
            \A r \in DOMAIN table.rows :
                Triple(table.rows[r]) = Triple(log[2].loaded[i]) =>
                    table.rows[r].category = log[3].local.rows[i].category

\* the calls whose put_object succeeded
Writers == { n \in DOMAIN log : log[n].done /\ log[n].wr = "ok" /\ log[n].body.exists }

\* the S3 object is the payload of the call that wrote last
LastWriterWins ==
    \A n \in Writers : (\A m \in Writers : log[m].end <= log[n].end) => s3 = log[n].body

\* no call read the store while another call was between its read and its write
OneAfterAnother == \A n \in DOMAIN log : log[n].alone

\* every triple and every label a call wrote is in the S3 object
NothingLost ==
    \A n \in Writers :
        /\ TriplesOf(log[n].body) \subseteq TriplesOf(s3)
        /\ LabelsKept(log[n].body, s3)

\* C23 (the claim as stated; the code violates its last part): the S3 object
\* is always the whole payload of the last writer, and when the calls ran one
\* after another no triple and no label that a call wrote is missing from it.
C23_LostUpdate ==
    /\ LastWriterWins
    /\ (in_flight = {} /\ OneAfterAnother) => NothingLost

\* the rows of a sheet as clean_data has them before it sorts and groups
\* them, in the order of the sheet
CleanedOf(sheet) ==
    cleaned_rows(rename_columns([columns |-> read_csv(sheet).columns,
                                 rows |-> SubSeq(read_csv(sheet).rows, 3,
                                                 Len(sheet.rows))]))

\* a row as to_excel writes it
Written(row) == [c \in DOMAIN row |-> write_cell(row[c])]

\* C24 (the claim as stated; the code violates it): after a successful
\* clean_data every row of the sheet has a record with its (facility,
\* address, inspection_date), no two records share these three, and every
\* record is its group's first row in the order of the sheet with
\* violation_code, violation_description and comment each the " | "-join of
\* the group's non-null values in that order.
C24_GroupCollapse ==
    \A n \in DOMAIN log :
        (log[n].op = "clean" /\ log[n].ret = "ok") =>
            LET rows == CleanedOf(log[n].table)
                members(r) ==
                    select_seq(rows, { i \in DOMAIN rows :
                                        Written(GroupKey(rows[i])) = GroupKey(table.rows[r]) })
            IN /\ \A i \in DOMAIN rows :
                    \E r \in DOMAIN table.rows :
                        GroupKey(table.rows[r]) = Written(GroupKey(rows[i]))
               /\ \A q, r \in DOMAIN table.rows :
                    GroupKey(table.rows[q]) = GroupKey(table.rows[r]) => q = r
               /\ \A r \in DOMAIN table.rows :
                    /\ members(r) # <<>>
                    /\ table.rows[r] = Written(combine_violations(members(r)))

\* the resolution of the code at position k of a record: the details of its
\* lookup entry, or "NA" three times and the record's description of that
\* position, empty when the record has fewer descriptions
ResolutionAt(lookup, codes, descs, k) ==
    IF lookup_has(lookup, clean_violation_code(codes[k]))
    THEN resolve_hit(lookup_get(lookup, clean_violation_code(codes[k])))
    ELSE resolve_miss(padded(descs, k))

\* C25 (the claim as stated; the code violates it): in the table written by
\* join_violation_details, for every record with a non-empty violation_code,
\* each of the four detail cells has as many "|"-separated elements as the
\* record has codes, and its element at position k is the resolution of the
\* code at position k.
C25_PositionalAlignment ==
    after("violations") /\ last.ret = "True"
                        /\ ViolationCols \subseteq last.table.columns =>
        \A i \in DOMAIN last.table.rows :
            LET codes == CodesOf(last.table.rows[i])
                descs == DescriptionsOf(last.table.rows[i])
                lookup == lookup_rows(read_csv(last.codes))
            IN codes # <<>> =>
                 \A c \in DetailCols :
                    /\ Len(split(table.rows[i][c], "|")) = Len(codes)
                    /\ \A k \in DOMAIN codes :
                         ElementAt(table.rows[i][c], k)
                            = <<strip(ResolutionAt(lookup, codes, descs, k)[c])>>

\* the parsed objects of a reply that decide the prediction for an id: the
\* last object with that id
Deciding(parsed, rid) ==
    { r \in { parsed[k] : k \in DOMAIN parsed } :
        \E k \in DOMAIN parsed :
            /\ parsed[k] = r /\ r.id = rid
            /\ \A j \in DOMAIN parsed : parsed[j].id = rid => j <= k }

\* C26: in every store row a labeler call changed, category is a member of
\* CATEGORIES and cuisine a member of CUISINE_CATEGORIES; each is the value
\* predicted for the row's candidate when that value is in the list, and
\* "Other" when the predicted value is absent or not in the list.
C26_ClosedVocabularies ==
    after("label") /\ last.applied > 0 =>
        \A i \in DOMAIN local.rows :
            local.rows[i] # last.loaded[i] =>
                /\ local.rows[i].category \in CATEGORIES
                /\ local.rows[i].cuisine \in CUISINE_CATEGORIES
                /\ \E k \in DOMAIN last.items :
                     /\ Triple(last.items[k]) = Triple(last.loaded[i])
                     /\ \E r \in Deciding(parse_jsonl(last.text), last.items[k].id) :
                          /\ local.rows[i].category =
                                IF r.strict_category \in CATEGORIES
                                THEN r.strict_category ELSE Other
                          /\ local.rows[i].cuisine =
                                IF r.cuisine \in CUISINE_CATEGORIES
                                THEN r.cuisine ELSE Other

\* C26's case: the reply predicted a strict category outside the list and no
\* cuisine for a candidate, and the candidate's row was written with both
\* as "Other".
C26_Witness ==
    /\ after("label") /\ last.applied > 0
    /\ \E i \in DOMAIN local.rows, k \in DOMAIN last.items :
         /\ local.rows[i] # last.loaded[i]
         /\ Triple(last.items[k]) = Triple(last.loaded[i])
         /\ \E r \in Deciding(parse_jsonl(last.text), last.items[k].id) :
              /\ r.strict_category \notin CATEGORIES
              /\ r.cuisine = Empty
         /\ local.rows[i].category = Other
         /\ local.rows[i].cuisine = Other

\* the rows of the store a labeler call loaded that its saved store changed
Updated(saved) == { i \in DOMAIN last.loaded : saved.rows[i] # last.loaded[i] }

\* C27: a labeler call that updated no store row saves nothing and leaves
\* the local file and the S3 object as they were; a call that updated at
\* least one row saves the store exactly once, with every update of the call
\* in it, however many candidates and rows were updated.
C27_SavedOncePerBatch ==
    after("label") =>
        IF last.applied = 0
        THEN last.saved = <<>> /\ s3 = last.s3 /\ local = last.local
        ELSE /\ Len(last.saved) = 1
             /\ local = last.saved[1]
             /\ Cardinality(Updated(last.saved[1])) = last.applied

\* C27's case: one batch updated the rows of two candidates and the store
\* was saved once.
C27_Witness ==
    /\ after("label") /\ Len(last.saved) = 1
    /\ \E i, j \in Updated(last.saved[1]) :
         Triple(last.loaded[i]) # Triple(last.loaded[j])

\* C27's other case: the reply was parsed and no row was updated.
C27_WitnessNone ==
    after("label") /\ last.llm = "reply" /\ last.applied = 0 /\ last.saved = <<>>

\* C28 (the claim as stated; the code violates it): in the run upsert, AI
\* labeling, upsert on the same working table, every store row the labeler
\* labelled is in the store the later upsert writes with the five label
\* fields the labeler saved for it.
C28_UpsertKeepsLabels ==
    (calls = 3 /\ log[2].op = "label" /\ log[3].op = "upsert") =>
        \A i \in LabelledRows(log[2], log[3].local) :
            \E r \in DOMAIN local.rows :
                /\ Triple(local.rows[r]) = Triple(log[2].loaded[i])
                /\ \A c \in LabelCols :
                     /\ c \in local.columns
                     /\ local.rows[r][c] = log[3].local.rows[i][c]

\* C29 (the claim as stated; the code violates it): in the table clean_data
\* writes, the city of every record is what the city pattern extracts from
\* the record's address as written.
C29_CityOfFinalAddress ==
    after("clean") /\ last.ret = "ok" =>
        \A i \in DOMAIN table.rows :
            table.rows[i]["city"] = extract_city(table.rows[i]["address"])

\* C30 (the claim as stated; the code violates it): in the table written by
\* join_violation_details, every record whose violation_code cell is empty
\* has four empty detail cells, and the record adds nothing to the set of
\* missing codes.
C30_EmptyViolationCode ==
    after("violations") /\ last.ret = "True"
                        /\ ViolationCols \subseteq last.table.columns =>
        \A i \in DOMAIN last.table.rows :
            last.table.rows[i]["violation_code"] = Empty =>
                /\ \A c \in DetailCols : table.rows[i][c] = Empty
                /\ missing_codes(lookup_rows(read_csv(last.codes)),
                                 read_csv(last.table).rows[i]) = {}

====
